---------------------------- MODULE Spec2Model ----------------------------
(***************************************************************************)
(* Model of the retrieval path of ASTRA-2.0: chunkText and processFile     *)
(* (server/services/file.ts), the embedding store accessors of             *)
(* server/utils/supabase.ts, generateEmbedding and getRelevantContext      *)
(* (server/services/openai.ts) and the embeddings table of the schema.     *)
(*                                                                         *)
(* A string is a sequence of characters.  The alphabet keeps one           *)
(* representative of each class the regular expressions of chunkText tell  *)
(* apart: a letter, a sentence punctuation mark ([.!?]), a blank and a     *)
(* line feed (both \s).                                                    *)
(***************************************************************************)
EXTENDS Integers, Sequences, FiniteSets, TLC

VARIABLES
    text,           \* chunkText: the text argument
    maxChunkSize,   \* chunkText: the maxChunkSize argument
    chunks,         \* chunkText: the returned array
    cpc,            \* chunkText: "call" before the call, "done" after it
    embeddings,     \* the rows of table embeddings
    nextId,         \* gen_random_uuid(): the next fresh id
    clock,          \* NOW()
    currentUser,    \* the user of the singleton client's session
    call,           \* the store or retrieval call in flight and its locals
    files,          \* the rows of table files
    proc,           \* processFile: the locals and the position of each call
    target,         \* code engine: the content of the file at filePath
    backup,         \* code engine: the content of the snapshot at backupPath
    code_changes,   \* the rows of table code_changes, in order of insertion
    apply,          \* applyCodeImprovement: the call in flight and its locals
    snapshots,      \* code engine: the files of SNAPSHOTS_DIR, in order
    roll,           \* rollbackCodeChange: the call in flight and its locals
    tables,         \* the rows of tables messages and knowledge_nodes
    run,            \* chunkText run loop by loop: its locals
    daily_summaries,     \* the rows of table daily_summaries
    save,                \* saveDailySummary: the calls in flight, their locals
    knowledge_relations, \* the rows of table knowledge_relations, in order
    know                 \* processTextForKnowledge: the call and its locals

chunkVars == <<text, maxChunkSize, chunks, cpc, run>>
storeVars == <<embeddings, nextId, clock, currentUser>>

ingestVars == <<files, proc>>
codeVars == <<target, backup, code_changes, apply, snapshots, roll>>
summaryVars == <<daily_summaries, save>>
knowledgeVars == <<knowledge_relations, know>>

vars == <<text, maxChunkSize, chunks, cpc,
          embeddings, nextId, clock, currentUser, call, files, proc,
          target, backup, code_changes, apply, snapshots, roll, tables, run,
          daily_summaries, save, knowledge_relations, know>>

-----------------------------------------------------------------------------
(* Bounds of the model *)

MaxTextLen == 7
MaxSize == 3
MaxRows == 3
MaxLimit == 2
MaxChunks == 5
MaxSourceChunks == 2
MaxUploadChunks == 1
MaxCodeChanges == 3
MaxSnapshots == 2
MaxRunLen == 6
MaxSummaries == 2
MaxEntities == 1
MaxRelationships == 2

-----------------------------------------------------------------------------
(* Strings *)

LETTER == "a"
PUNCT == "."
SP == " "
NL == "\n"

Char == {LETTER, PUNCT, SP, NL}

\* \s of the regular expressions
IsSpace(c) == c \in {SP, NL}

Texts == UNION {[1..n -> Char] : n \in 0..MaxTextLen}

Min(a, b) == IF a <= b THEN a ELSE b

\* s.slice(from - 1, to) with 1-based inclusive bounds
Slice(s, from, to) == IF from > to THEN <<>> ELSE SubSeq(s, from, to)

RECURSIVE Concat(_)
Concat(ss) == IF ss = <<>> THEN <<>> ELSE Head(ss) \o Concat(Tail(ss))

\* ss.join(sep)
RECURSIVE JoinWith(_, _)
JoinWith(ss, sep) ==
    IF ss = <<>> THEN <<>>
    ELSE IF Len(ss) = 1 THEN Head(ss)
    ELSE Head(ss) \o sep \o JoinWith(Tail(ss), sep)

RECURSIVE StripSpace(_)
StripSpace(s) ==
    IF s = <<>> THEN <<>>
    ELSE IF IsSpace(Head(s)) THEN StripSpace(Tail(s))
    ELSE <<Head(s)>> \o StripSpace(Tail(s))

\* the last index of the maximal run of \s characters that starts at p
\* (p - 1 when s[p] is no \s character)
RECURSIVE SpaceRunEnd(_, _)
SpaceRunEnd(s, p) ==
    IF p <= Len(s) /\ IsSpace(s[p]) THEN SpaceRunEnd(s, p + 1) ELSE p - 1

\* /\n\s*\n/ tried at position p: the index of the last character of the
\* match, 0 when there is none.  \s* is greedy and gives back characters
\* until a line feed follows: the match ends at the last line feed of the
\* run of \s characters after s[p].
ParagraphBreakAt(s, p) ==
    IF p > Len(s) \/ s[p] # NL THEN 0
    ELSE LET e == SpaceRunEnd(s, p + 1)
             nls == {j \in (p + 1)..e : s[j] = NL}
         IN IF nls = {} THEN 0 ELSE CHOOSE j \in nls : \A k \in nls : k <= j

\* /(?<=[.!?])\s+/ tried at position p: the index of the last character of
\* the match, 0 when there is none.
SentenceBreakAt(s, p) ==
    IF p <= 1 \/ p > Len(s) THEN 0
    ELSE IF s[p - 1] = PUNCT /\ IsSpace(s[p]) THEN SpaceRunEnd(s, p) ELSE 0

\* String.prototype.split with a pattern that matches no empty string:
\* st is the start of the piece being collected, q the position tried.
RECURSIVE SplitParagraphsFrom(_, _, _)
SplitParagraphsFrom(s, st, q) ==
    IF q > Len(s) THEN <<Slice(s, st, Len(s))>>
    ELSE LET e == ParagraphBreakAt(s, q)
         IN IF e = 0 THEN SplitParagraphsFrom(s, st, q + 1)
            ELSE <<Slice(s, st, q - 1)>> \o SplitParagraphsFrom(s, e + 1, e + 1)

SplitParagraphs(s) == SplitParagraphsFrom(s, 1, 1)

RECURSIVE SplitSentencesFrom(_, _, _)
SplitSentencesFrom(s, st, q) ==
    IF q > Len(s) THEN <<Slice(s, st, Len(s))>>
    ELSE LET e == SentenceBreakAt(s, q)
         IN IF e = 0 THEN SplitSentencesFrom(s, st, q + 1)
            ELSE <<Slice(s, st, q - 1)>> \o SplitSentencesFrom(s, e + 1, e + 1)

SplitSentences(s) == SplitSentencesFrom(s, 1, 1)

-----------------------------------------------------------------------------
(* chunkText *)

\* a slicing that loses the characters of the last, shorter slice
RECURSIVE SlicesDropTail(_, _)
SlicesDropTail(s, n) ==
    IF Len(s) < n THEN <<>>
    ELSE <<SubSeq(s, 1, n)>> \o SlicesDropTail(Slice(s, n + 1, Len(s)), n)

\* while (i < sentence.length) { chunks.push(sentence.slice(i, i + max)); i += max }
RECURSIVE SlicesFrom(_, _)
SlicesFrom(s, n) ==
    IF Len(s) = 0 THEN <<>>
    ELSE IF Len(s) <= n THEN <<s>>
    ELSE <<SubSeq(s, 1, n)>> \o SlicesFrom(Slice(s, n + 1, Len(s)), n)

Slices(s, n) == SlicesFrom(s, n)

\* a loop body that empties currentChunk without pushing it first
SentenceStepNoPush(st, sentence, n) ==
    IF Len(st.cur) + Len(sentence) > n
    THEN IF Len(sentence) > n
         THEN [chunks |-> st.chunks \o SlicesFrom(sentence, n), cur |-> <<>>]
         ELSE [chunks |-> st.chunks, cur |-> sentence]
    ELSE [chunks |-> st.chunks,
          cur |-> st.cur \o (IF Len(st.cur) > 0 THEN <<SP>> ELSE <<>>) \o sentence]

\* a loop body that keeps the last slice of a long sentence in currentChunk,
\* where the next sentence is added to it
SentenceStepKeepsLast(st, sentence, n) ==
    IF Len(st.cur) + Len(sentence) > n
    THEN LET fl == IF Len(st.cur) > 0
                   THEN [chunks |-> Append(st.chunks, st.cur), cur |-> <<>>]
                   ELSE st
             sl == Slices(sentence, n)
         IN IF Len(sentence) > n
            THEN [chunks |-> fl.chunks \o SubSeq(sl, 1, Len(sl) - 1),
                  cur |-> sl[Len(sl)]]
            ELSE [chunks |-> fl.chunks, cur |-> sentence]
    ELSE [chunks |-> st.chunks,
          cur |-> st.cur \o (IF Len(st.cur) > 0 THEN <<SP>> ELSE <<>>) \o sentence]

\* the body of the loop over the sentences of a paragraph; st is the pair
\* of the locals chunks and currentChunk
SentenceStep(st, sentence, n) ==
    IF Len(st.cur) + Len(sentence) > n
    THEN LET fl == IF Len(st.cur) > 0
                   THEN [chunks |-> Append(st.chunks, st.cur), cur |-> <<>>]
                   ELSE st
         IN IF Len(sentence) > n
            THEN [chunks |-> fl.chunks \o Slices(sentence, n), cur |-> fl.cur]
            ELSE [chunks |-> fl.chunks, cur |-> sentence]
    ELSE [chunks |-> st.chunks,
          cur |-> st.cur \o (IF Len(st.cur) > 0 THEN <<SP>> ELSE <<>>) \o sentence]

RECURSIVE SentenceLoop(_, _, _)
SentenceLoop(st, sentences, n) ==
    IF sentences = <<>> THEN st
    ELSE SentenceLoop(SentenceStep(st, Head(sentences), n), Tail(sentences), n)

\* a loop body that starts a new chunk at every paragraph
ParagraphStepAlwaysFlush(st, paragraph, n) ==
    LET fl == IF Len(st.cur) > 0
              THEN [chunks |-> Append(st.chunks, st.cur), cur |-> <<>>]
              ELSE st
    IN IF Len(paragraph) > n
       THEN SentenceLoop(fl, SplitSentences(paragraph), n)
       ELSE [chunks |-> fl.chunks, cur |-> paragraph]

\* the body of the loop over the paragraphs
ParagraphStep(st, paragraph, n) ==
    IF Len(st.cur) + Len(paragraph) > n
    THEN LET fl == IF Len(st.cur) > 0
                   THEN [chunks |-> Append(st.chunks, st.cur), cur |-> <<>>]
                   ELSE st
         IN IF Len(paragraph) > n
            THEN SentenceLoop(fl, SplitSentences(paragraph), n)
            ELSE [chunks |-> fl.chunks, cur |-> paragraph]
    ELSE [chunks |-> st.chunks,
          cur |-> st.cur \o (IF Len(st.cur) > 0 THEN <<NL, NL>> ELSE <<>>)
                         \o paragraph]

RECURSIVE ParagraphLoop(_, _, _)
ParagraphLoop(st, paragraphs, n) ==
    IF paragraphs = <<>> THEN st
    ELSE ParagraphLoop(ParagraphStep(st, Head(paragraphs), n), Tail(paragraphs), n)

\* a chunkText that pushes currentChunk after the loop without testing its
\* length
PushesLastChunk(t, n) ==
    IF Len(t) = 0 \/ Len(t) <= n THEN <<t>>
    ELSE LET end == ParagraphLoop([chunks |-> <<>>, cur |-> <<>>],
                                  SplitParagraphs(t), n)
         IN Append(end.chunks, end.cur)

chunkText(t, n) ==
    IF Len(t) = 0 \/ Len(t) <= n THEN <<t>>
    ELSE LET end == ParagraphLoop([chunks |-> <<>>, cur |-> <<>>],
                                  SplitParagraphs(t), n)
         IN IF Len(end.cur) > 0 THEN Append(end.chunks, end.cur) ELSE end.chunks

-----------------------------------------------------------------------------
(* chunkText loop by loop: one step per iteration of each of its loops.    *)

\* the locals of chunkText before the loops: currentChunk, the paragraphs
\* and the sentences still to visit, the sentence being sliced and i
NoRun ==
    [cur |-> <<>>, paragraphs |-> <<>>, sentences |-> <<>>,
     sentence |-> <<>>, i |-> 0]

\* if (currentChunk.length > 0) { chunks.push(currentChunk); }
Pushed(cs, cur) == IF Len(cur) > 0 THEN Append(cs, cur) ELSE cs

\* a loop that does not advance i
SliceStalls(i, n) == i

\* i += maxChunkSize
SliceAdvance(i, n) == i + n

\* if (!text || text.length <= maxChunkSize) return [text];
\* chunks = []; currentChunk = ''; paragraphs = text.split(/\n\s*\n/)
EnterChunkText ==
    /\ cpc = "entry"
    /\ IF Len(text) = 0 \/ Len(text) <= maxChunkSize
       THEN chunks' = <<text>> /\ cpc' = "done" /\ run' = run
       ELSE /\ chunks' = <<>>
            /\ run' = [NoRun EXCEPT !.paragraphs = SplitParagraphs(text)]
            /\ cpc' = "paragraphs"
    /\ UNCHANGED <<text, maxChunkSize, storeVars, call, ingestVars, codeVars, tables,
                   summaryVars, knowledgeVars>>

\* for (const paragraph of paragraphs) { ... }: one iteration, up to the
\* loop over its sentences when the paragraph is too long
ParagraphIteration ==
    /\ cpc = "paragraphs"
    /\ run.paragraphs # <<>>
    /\ LET paragraph == Head(run.paragraphs)
           rest == [run EXCEPT !.paragraphs = Tail(@)]
       IN IF Len(run.cur) + Len(paragraph) > maxChunkSize
          THEN /\ chunks' = Pushed(chunks, run.cur)
               /\ IF Len(paragraph) > maxChunkSize
                  THEN /\ run' = [rest EXCEPT !.cur = <<>>,
                                     !.sentences = SplitSentences(paragraph)]
                       /\ cpc' = "sentences"
                  ELSE /\ run' = [rest EXCEPT !.cur = paragraph]
                       /\ cpc' = cpc
          ELSE /\ run' = [rest EXCEPT !.cur =
                             @ \o (IF Len(@) > 0 THEN <<NL, NL>> ELSE <<>>)
                               \o paragraph]
               /\ UNCHANGED <<chunks, cpc>>
    /\ UNCHANGED <<text, maxChunkSize, storeVars, call, ingestVars, codeVars, tables,
                   summaryVars, knowledgeVars>>

\* the loop over the paragraphs is over: the last chunk is pushed and the
\* chunks are returned
ReturnChunks ==
    /\ cpc = "paragraphs"
    /\ run.paragraphs = <<>>
    /\ chunks' = Pushed(chunks, run.cur)
    /\ cpc' = "done"
    /\ UNCHANGED <<text, maxChunkSize, run, storeVars, call, ingestVars, codeVars, tables,
                   summaryVars, knowledgeVars>>

\* for (const sentence of sentencesInParagraph) { ... }: one iteration, up
\* to the slicing loop when the sentence is too long
SentenceIteration ==
    /\ cpc = "sentences"
    /\ run.sentences # <<>>
    /\ LET sentence == Head(run.sentences)
           rest == [run EXCEPT !.sentences = Tail(@)]
       IN IF Len(run.cur) + Len(sentence) > maxChunkSize
          THEN /\ chunks' = Pushed(chunks, run.cur)
               /\ IF Len(sentence) > maxChunkSize
                  THEN /\ run' = [rest EXCEPT !.cur = <<>>,
                                     !.sentence = sentence, !.i = 0]
                       /\ cpc' = "slices"
                  ELSE /\ run' = [rest EXCEPT !.cur = sentence]
                       /\ cpc' = cpc
          ELSE /\ run' = [rest EXCEPT !.cur =
                             @ \o (IF Len(@) > 0 THEN <<SP>> ELSE <<>>)
                               \o sentence]
               /\ UNCHANGED <<chunks, cpc>>
    /\ UNCHANGED <<text, maxChunkSize, storeVars, call, ingestVars, codeVars, tables,
                   summaryVars, knowledgeVars>>

\* the loop over the sentences of the paragraph is over
SentencesDone ==
    /\ cpc = "sentences"
    /\ run.sentences = <<>>
    /\ cpc' = "paragraphs"
    /\ UNCHANGED <<text, maxChunkSize, chunks, run, storeVars, call, ingestVars, codeVars, tables,
                   summaryVars, knowledgeVars>>

\* while (i < sentence.length) { chunks.push(sentence.slice(i, i + max));
\* i += max }: one iteration
SliceIteration ==
    /\ cpc = "slices"
    /\ run.i < Len(run.sentence)
    /\ Len(chunks) < Len(text)      \* the slices pushed are pieces of the text
    /\ chunks' = Append(chunks,
                    Slice(run.sentence, run.i + 1,
                          Min(run.i + maxChunkSize, Len(run.sentence))))
    /\ run' = [run EXCEPT !.i = SliceAdvance(run.i, maxChunkSize)]
    /\ UNCHANGED <<text, maxChunkSize, cpc, storeVars, call, ingestVars, codeVars, tables,
                   summaryVars, knowledgeVars>>

\* the slicing loop is over: i >= sentence.length
SlicesDone ==
    /\ cpc = "slices"
    /\ run.i >= Len(run.sentence)
    /\ cpc' = "sentences"
    /\ UNCHANGED <<text, maxChunkSize, chunks, run, storeVars, call, ingestVars, codeVars, tables,
                   summaryVars, knowledgeVars>>

-----------------------------------------------------------------------------
(* The code engine (server/services/codeEngine.ts): applyCodeImprovement   *)
(* on one file.  A content is known by what the check of testCodeChanges   *)
(* makes of it; every await is a step.  The calls of fs on the local disk  *)
(* succeed; the inserts into the store may fail.                           *)

\* the content of the file before any improvement
InitialCode == "v0"

\* what newCode may be: code that passes the syntax check, code that fails it
NewCodes == {"good", "broken"}

\* path.extname(filePath)
Exts == {".ts", ".json", ".md"}

NoBackup == "none"

\* applyCodeImprovement before it is called
NotApplying ==
    [pc |-> "idle", newCode |-> InitialCode, ext |-> ".ts",
     originalCode |-> InitialCode, wrote |-> FALSE, test |-> "none",
     error |-> "none", result |-> "none", backupPath |-> 0,
     before |-> InitialCode,    \* history: the content when the call began
     logged |-> 0]              \* history: the rows of code_changes then

\* tables messages and knowledge_nodes, empty
NoRows == [t \in {"messages", "knowledge_nodes"} |-> {}]

\* the callers of saveDailySummary
Savers == {"s1", "s2"}

\* no call of saveDailySummary in flight
NotSaving ==
    [pc |-> "idle", date |-> 0, args |-> <<>>, userId |-> "nobody",
     existingSummary |-> "null", failure |-> "none"]

SummariesAtRest ==
    /\ daily_summaries = {}
    /\ save = [c \in Savers |-> NotSaving]

\* no node found
NoNode == [id |-> 0, user_id |-> "nobody", name |-> "", shared |-> FALSE]

\* no call of processTextForKnowledge in flight
NotExtracting ==
    [pc |-> "idle", entities |-> <<>>, relationships |-> <<>>, i |-> 1,
     sourceNode |-> NoNode, targetNode |-> NoNode, base |-> 0,
     createdEntities |-> <<>>, createdRelationships |-> <<>>,
     failure |-> "none"]

KnowledgeAtRest ==
    /\ knowledge_relations = <<>>
    /\ know = NotExtracting

\* rollbackCodeChange before it is called
NotRolling ==
    [pc |-> "idle", backupPath |-> 0, currentCode |-> InitialCode,
     backupCode |-> InitialCode, wrote |-> FALSE, error |-> "none",
     seen |-> 0,                \* history: the snapshots when the call began
     applying |-> FALSE]        \* history: an apply was in flight then

CodeAtRest ==
    /\ target = InitialCode
    /\ backup = NoBackup
    /\ code_changes = <<>>
    /\ apply = NotApplying
    /\ snapshots = <<>>
    /\ roll = NotRolling

\* testCodeChanges(filePath): node --check for .js and .ts, JSON.parse for
\* .json, success for any other extension; it reads the file at filePath
testCodeChanges(content, ext) ==
    IF ext \in {".ts", ".json"} THEN content # "broken" ELSE TRUE

\* a catch block that leaves the file as it is
KeepsFile(current, saved) == current

\* catch: if (fs.existsSync(backupPath)) fs.writeFileSync(filePath,
\* fs.readFileSync(backupPath))
RestoreBackup(current, saved) == IF saved # NoBackup THEN saved ELSE current

\* an await of the call throws: inside the try block the error reaches the
\* inner catch block, inside that catch block it leaves the call
Throws(a) ==
    [a EXCEPT !.pc = IF a.pc \in {"catchLog", "catchEvent"} THEN "threw" ELSE "catch",
              !.error = "StoreError"]

\* fs.writeFileSync(backupPath, originalCode): a file of SNAPSHOTS_DIR
Snapshot(originalCode) ==
    [content |-> originalCode,
     original |-> originalCode]  \* history: what the target file held then

otherVars ==
    <<chunkVars, storeVars, call, ingestVars, tables, summaryVars, knowledgeVars>>

\* applyCodeImprovement(filePath, newCode, reasoning, userId) is called: a
\* missing file throws; else the original is read and the backup written
CallApply(newCode, ext, exists) ==
    /\ apply.pc = "idle"
    /\ Len(code_changes) < MaxCodeChanges
    /\ Len(snapshots) < MaxSnapshots
    /\ IF exists
       THEN /\ apply' = [NotApplying EXCEPT !.pc = "generateDiff",
                            !.newCode = newCode, !.ext = ext,
                            !.originalCode = target, !.before = target,
                            !.backupPath = Len(snapshots) + 1,
                            !.logged = Len(code_changes)]
            /\ backup' = target
            /\ snapshots' = Append(snapshots, Snapshot(target))
       ELSE /\ apply' = [NotApplying EXCEPT !.pc = "threw", !.error = "NoFile",
                            !.newCode = newCode, !.ext = ext, !.before = target,
                            !.logged = Len(code_changes)]
            /\ UNCHANGED <<backup, snapshots>>
    /\ UNCHANGED <<target, code_changes, roll, otherVars>>

\* const diffText = await generateDiff(originalCode, newCode); it never
\* throws.  Then, without an await: fs.writeFileSync(filePath, newCode), and
\* testCodeChanges is started
WriteNewCode ==
    /\ apply.pc = "generateDiff"
    /\ target' = apply.newCode
    /\ apply' = [apply EXCEPT !.pc = "test", !.wrote = TRUE]
    /\ UNCHANGED <<backup, code_changes, snapshots, roll, otherVars>>

\* const testResult = await testCodeChanges(filePath); on failure, without
\* an await: fs.writeFileSync(filePath, originalCode)
TestCodeChanges ==
    /\ apply.pc = "test"
    /\ IF testCodeChanges(target, apply.ext)
       THEN /\ apply' = [apply EXCEPT !.pc = "logApplied", !.test = "passed"]
            /\ UNCHANGED target
       ELSE /\ apply' = [apply EXCEPT !.pc = "logReverted", !.test = "failed"]
            /\ target' = apply.originalCode
    /\ UNCHANGED <<backup, code_changes, snapshots, roll, otherVars>>

\* await logCodeChange(filePath, diffText, reasoning, 'applied'): the row is
\* inserted, or getCurrentUserId or the insert throws
LogApplied ==
    /\ apply.pc = "logApplied"
    /\ \/ /\ code_changes' = Append(code_changes, "applied")
          /\ apply' = [apply EXCEPT !.pc = "eventApplied"]
       \/ /\ apply' = Throws(apply)
          /\ UNCHANGED code_changes
    /\ UNCHANGED <<target, backup, snapshots, roll, otherVars>>

\* await logEvent('code_improvement', `Applied ...`)
EventApplied ==
    /\ apply.pc = "eventApplied"
    /\ \/ apply' = [apply EXCEPT !.pc = "commit"]
       \/ apply' = Throws(apply)
    /\ UNCHANGED <<target, backup, code_changes, snapshots, roll, otherVars>>

\* await commitChangesToGit(filePath, reasoning), which never throws;
\* return { success: true, ... }
CommitAndReturn ==
    /\ apply.pc = "commit"
    /\ apply' = [apply EXCEPT !.pc = "returned", !.result = "success"]
    /\ UNCHANGED <<target, backup, code_changes, snapshots, roll, otherVars>>

\* await logCodeChange(filePath, diffText, ..., 'reverted') after a failed
\* test
LogReverted ==
    /\ apply.pc = "logReverted"
    /\ \/ /\ code_changes' = Append(code_changes, "reverted")
          /\ apply' = [apply EXCEPT !.pc = "eventReverted"]
       \/ /\ apply' = Throws(apply)
          /\ UNCHANGED code_changes
    /\ UNCHANGED <<target, backup, snapshots, roll, otherVars>>

\* await logEvent('code_improvement', `Reverted ...`);
\* return { success: false, ... }
EventReverted ==
    /\ apply.pc = "eventReverted"
    /\ \/ apply' = [apply EXCEPT !.pc = "returned", !.result = "failure"]
       \/ apply' = Throws(apply)
    /\ UNCHANGED <<target, backup, code_changes, snapshots, roll, otherVars>>

\* catch (error): the file is restored from the backup, and
\* logCodeChange(..., 'reverted') is started
CatchRestore ==
    /\ apply.pc = "catch"
    /\ target' = RestoreBackup(target, backup)
    /\ apply' = [apply EXCEPT !.pc = "catchLog"]
    /\ UNCHANGED <<backup, code_changes, snapshots, roll, otherVars>>

\* catch: await logCodeChange(filePath, diffText, ..., 'reverted')
CatchLog ==
    /\ apply.pc = "catchLog"
    /\ \/ /\ code_changes' = Append(code_changes, "reverted")
          /\ apply' = [apply EXCEPT !.pc = "catchEvent"]
       \/ /\ apply' = Throws(apply)
          /\ UNCHANGED code_changes
    /\ UNCHANGED <<target, backup, snapshots, roll, otherVars>>

\* catch: await logEvent(...); throw error
CatchEvent ==
    /\ apply.pc = "catchEvent"
    /\ apply' = [apply EXCEPT !.pc = "threw"]
    /\ UNCHANGED <<target, backup, code_changes, snapshots, roll, otherVars>>

ApplyEnded == apply.pc \in {"returned", "threw"}

\* the caller takes the outcome
ReturnApply ==
    /\ ApplyEnded
    /\ apply' = NotApplying
    /\ UNCHANGED <<target, backup, code_changes, snapshots, roll, otherVars>>

------------------------------------------------------------\* rollbackCodeChange writes backupCode, whatever the file holds
RollbackKeepsCurrent(currentCode, backupCode) == currentCode

\* fs.writeFileSync(filePath, backupCode)
RollbackContent(currentCode, backupCode) == backupCode

\* fs.existsSync(backupPath): the snapshots are never removed
BackupExists(backupPath) == backupPath \in 1..Len(snapshots)

\* rollbackCodeChange(filePath, backupPath, userId, reason) is called: a
\* missing file or a missing backup throws; else both are read
CallRollback(backupPath, exists) ==
    /\ roll.pc = "idle"
    /\ Len(code_changes) < MaxCodeChanges
    /\ LET r == [NotRolling EXCEPT !.backupPath = backupPath,
                    !.seen = Len(snapshots),
                    !.applying = ~(apply.pc = "idle" \/ ApplyEnded)]
       IN roll' = IF ~exists THEN [r EXCEPT !.pc = "threw", !.error = "NoFile"]
                  ELSE IF ~BackupExists(backupPath)
                       THEN [r EXCEPT !.pc = "threw", !.error = "NoBackup"]
                  ELSE [r EXCEPT !.pc = "generateDiff",
                                 !.currentCode = target,
                                 !.backupCode = snapshots[backupPath].content]
    /\ UNCHANGED <<target, backup, code_changes, apply, snapshots, otherVars>>

\* const diffText = await generateDiff(currentCode, backupCode); then,
\* without an await: fs.writeFileSync(filePath, backupCode), and logCodeChange
\* is started
WriteBackupCode ==
    /\ roll.pc = "generateDiff"
    /\ target' = RollbackContent(roll.currentCode, roll.backupCode)
    /\ roll' = [roll EXCEPT !.pc = "logRollback", !.wrote = TRUE]
    /\ UNCHANGED <<backup, code_changes, apply, snapshots, otherVars>>

\* await logCodeChange(filePath, diffText, `Manual rollback: ...`, 'reverted')
LogRollback ==
    /\ roll.pc = "logRollback"
    /\ \/ /\ code_changes' = Append(code_changes, "reverted")
          /\ roll' = [roll EXCEPT !.pc = "eventRollback"]
       \/ /\ roll' = [roll EXCEPT !.pc = "threw", !.error = "StoreError"]
          /\ UNCHANGED code_changes
    /\ UNCHANGED <<target, backup, apply, snapshots, otherVars>>

\* await logEvent('code_improvement', `Rolled back ...`);
\* return { success: true, ... }
EventRollback ==
    /\ roll.pc = "eventRollback"
    /\ \/ roll' = [roll EXCEPT !.pc = "returned"]
       \/ roll' = [roll EXCEPT !.pc = "threw", !.error = "StoreError"]
    /\ UNCHANGED <<target, backup, code_changes, apply, snapshots, otherVars>>

RollbackEnded == roll.pc \in {"returned", "threw"}

\* the caller takes the outcome
ReturnRollback ==
    /\ RollbackEnded
    /\ roll' = NotRolling
    /\ UNCHANGED <<target, backup, code_changes, apply, snapshots, otherVars>>

-----------------
(* The embedding store: table embeddings, its row-level security policy,   *)
(* saveEmbedding and searchEmbeddings                                       *)

Users == {"u1", "u2"}
NoUser == "nobody"

\* the calls of processFile in flight
Procs == {"p1"}

\* no file: ids start at 1
NoFile == 0

\* processFile before it is called
NotStarted ==
    [pc |-> "idle", userId |-> NoUser, fileId |-> NoFile, n |-> 0, i |-> 0,
     embedding |-> <<>>, failure |-> "none", failedAt |-> -1, result |-> NoFile,
     attempts |-> 0,     \* calls of generateEmbedding made for chunk i
     computed |-> <<>>]  \* history: the vectors the provider answered, by chunk

\* embeddings of dimension 2 stand for the vector(1536) column
Vectors == {<<1, 0>>, <<9, 1>>, <<0, 1>>}

\* the dimension of the column: 2 stands for 1536
Dimension == 2

\* a column without a declared dimension takes a vector of any length
vector_any_dimension(v) == TRUE

\* embedding vector(1536) NOT NULL: the column takes vectors of that length
\* only; the schema puts no other constraint on the value
vector_dimension_ok(v) == Len(v) = Dimension

\* what saveEmbedding may be handed as embedding: number[]: a vector as the
\* provider answers it, the zero vector, a vector too short, one too long
PutVectors == {<<1, 0>>, <<0, 0>>, <<1>>, <<1, 0, 0>>}

\* what the embedding provider may answer for a chunk of a file
ProviderVectors == {<<1, 0>>, <<9, 1>>}

Abs(x) == IF x < 0 THEN -x ELSE x

Dot(a, b) == a[1] * b[1] + a[2] * b[2]

\* The cosine similarity of two non-zero vectors, kept exact as the fraction
\* <<num, den>> = sign(cos) * cos^2, which orders as the cosine does.
Similarity(a, b) == <<Dot(a, b) * Abs(Dot(a, b)), Dot(a, a) * Dot(b, b)>>

SimLess(x, y) == x[1] * y[2] < y[1] * x[2]
SimEq(x, y) == x[1] * y[2] = y[1] * x[2]

\* cosine >= tenths / 10, for tenths >= 0
SimAtLeast(x, tenths) == x[1] >= 0 /\ 100 * x[1] >= tenths * tenths * x[2]

\* match_threshold: 0.7
MatchThresholdTenths == 7

\* searchEmbeddings(embedding, limit = 5)
DefaultLimit == 5

\* a table without row-level security: every session sees every row
embeddings_policy_off(row, uid) == TRUE

\* CREATE POLICY embeddings_policy ON embeddings USING (user_id = auth.uid()):
\* a session sees, and may insert, only the rows of its own user
embeddings_policy(row, uid) == row.user_id = uid

VisibleRows(uid) == {r \in embeddings : embeddings_policy(r, uid)}

\* a table messages without row-level security
messages_policy_off(row, uid) == TRUE

\* CREATE POLICY messages_policy ON messages USING (user_id = auth.uid())
messages_policy(row, uid) == row.user_id = uid

\* CREATE POLICY knowledge_nodes_private_policy ON knowledge_nodes
\*   USING (user_id = auth.uid() OR shared = TRUE)
knowledge_nodes_private_policy(row, uid) == row.user_id = uid \/ row.shared

\* CREATE POLICY files_private_policy ON files USING (user_id = auth.uid()
\*   OR shared = TRUE OR auth.uid()::text = ANY(shared_with))
files_private_policy(row, uid) ==
    row.user_id = uid \/ row.shared \/ uid \in row.shared_with

\* the policy of table t, for reads of a row and for its insertion
TablePolicy(t, row, uid) ==
    CASE t = "messages" -> messages_policy(row, uid)
      [] t = "knowledge_nodes" -> knowledge_nodes_private_policy(row, uid)
      [] t = "files" -> files_private_policy(row, uid)

\* the row saveFileMetadata inserts; shared and shared_with take the
\* defaults of the schema, no statement of the program sets them
NewFileRow(userId) ==
    [id |-> nextId, user_id |-> userId, shared |-> FALSE, shared_with |-> {},
     insertedAs |-> currentUser]    \* history: the session that inserted it

\* a timestamp column of coarse resolution: inserts that follow one another
\* closely get the same value
created_at_coarse == clock \div 8

\* created_at TIMESTAMP WITH TIME ZONE DEFAULT NOW(); every insert is a
\* transaction of its own and the clock has advanced since the last one
created_at_default == clock

NewRow(userId, sourceType, sourceId, content, embedding) ==
    [id |-> nextId, user_id |-> userId, source_type |-> sourceType,
     source_id |-> sourceId, content |-> content, embedding |-> embedding,
     created_at |-> created_at_default,
     insertedAs |-> currentUser]    \* history: the session that inserted it

\* an insert that reports success and stores nothing
InsertLost(rows, row) == rows

\* supabase.from(table).insert(row): the table with the row added
Inserted(rows, row) == rows \cup {row}

\* a ranks before b in the answer to query q
RanksBefore(a, b, q) ==
    LET sa == Similarity(q, a.embedding)
        sb == Similarity(q, b.embedding)
    IN SimLess(sb, sa) \/ (SimEq(sa, sb) /\ a.created_at < b.created_at)

RECURSIVE RankRows(_, _)
RankRows(S, q) ==
    IF S = {} THEN <<>>
    ELSE LET first == CHOOSE r \in S : \A o \in S : ~RanksBefore(o, r, q)
         IN <<first>> \o RankRows(S \ {first}, q)

\* the database function match_embeddings, run on the rows the session sees
match_embeddings(rows, query_embedding, match_threshold, match_count, user_id) ==
    LET hits == {r \in rows :
                    /\ r.user_id = user_id
                    /\ SimAtLeast(Similarity(query_embedding, r.embedding),
                                  match_threshold)}
        ranked == RankRows(hits, query_embedding)
    IN [i \in 1..Min(match_count, Len(ranked)) |->
           [id |-> ranked[i].id, content |-> ranked[i].content,
            similarity |-> Similarity(query_embedding, ranked[i].embedding),
            source_id |-> ranked[i].source_id,
            source_type |-> ranked[i].source_type]]

\* arguments that ask the database for one row more than the limit
MatchArgsOneMore(embedding, limit, userId) ==
    [query_embedding |-> embedding, match_threshold |-> MatchThresholdTenths,
     match_count |-> limit + 1, user_id |-> userId]

\* the arguments searchEmbeddings hands to rpc('match_embeddings', ...)
MatchArgs(embedding, limit, userId) ==
    [query_embedding |-> embedding, match_threshold |-> MatchThresholdTenths,
     match_count |-> limit, user_id |-> userId]

\* a catch block that rethrows
CatchRethrows == "threw"

\* getRelevantContext: catch (error) { console.error(...); return ''; }
getRelevantContextCatch == "returned"

\* searchFiles, saveEmbedding, searchEmbeddings: the error reaches the caller
Rethrow == "threw"

OnError(op) == IF op = "getRelevantContext" THEN getRelevantContextCatch ELSE Rethrow

\* searchResults.map(result => `[Source: type/id, Relevance: r]\ncontent`)
\* similarity.toFixed(2): the hundredths nearest to the cosine, for a
\* similarity >= 0 kept as <<cos^2 numerator, denominator>>
toFixed2(sim) ==
    CHOOSE h \in 0..100 :
        /\ h > 0 => (2 * h - 1) * (2 * h - 1) * sim[2] <= 40000 * sim[1]
        /\ 40000 * sim[1] < (2 * h + 1) * (2 * h + 1) * sim[2]

\* a value interpolated in a template string, character by character here
\* piece by piece: a content is the sequence of its pieces
Interpolated(content) == [i \in 1..Len(content) |-> ToString(content[i])]

\* `[Source: ${source_type}/${source_id}, Relevance: ${similarity.toFixed(2)}]
\* ${content}`: the string as the sequence of its pieces
FormatResult(result) ==
    <<"[Source: ", result.source_type, "/", ToString(result.source_id),
      ", Relevance: ", ToString(toFixed2(result.similarity)), "]\n">>
        \o Interpolated(result.content)

\* a context made of the first result only
ContextOfFirst(results) ==
    JoinWith([i \in 1..Min(1, Len(results)) |-> FormatResult(results[i])],
             <<"\n\n">>)

\* searchResults.map(result => `...`).join('\n\n'); '' for no result
ContextOf(results) ==
    JoinWith([i \in 1..Len(results) |-> FormatResult(results[i])], <<"\n\n">>)

Idle ==
    [op |-> "none", pc |-> "idle", vec |-> <<>>, limit |-> 0, userId |-> NoUser,
     issuedAs |-> NoUser, failure |-> "none", rows |-> <<>>, data |-> <<>>]

Ended == call.pc \in {"returned", "threw"}

\* the call ends with error e: thrown to the caller, or caught
Fail(e) ==
    call' = [call EXCEPT !.pc = OnError(call.op), !.failure = e,
                         !.issuedAs = currentUser]

CallSaveEmbedding(v) ==
    /\ call.pc = "idle"
    /\ Cardinality(embeddings) < MaxRows
    /\ call' = [Idle EXCEPT !.op = "saveEmbedding", !.pc = "getUser", !.vec = v]
    /\ UNCHANGED <<chunkVars, codeVars, tables, summaryVars, knowledgeVars, storeVars, ingestVars>>

CallSearchEmbeddings(q, k) ==
    /\ call.pc = "idle"
    /\ call' = [Idle EXCEPT !.op = "searchEmbeddings", !.pc = "getUser",
                            !.vec = q, !.limit = k]
    /\ UNCHANGED <<chunkVars, codeVars, tables, summaryVars, knowledgeVars, storeVars, ingestVars>>

CallGetRelevantContext ==
    /\ call.pc = "idle"
    /\ call' = [Idle EXCEPT !.op = "getRelevantContext", !.pc = "embed",
                            !.limit = DefaultLimit]
    /\ UNCHANGED <<chunkVars, codeVars, tables, summaryVars, knowledgeVars, storeVars, ingestVars>>

CallSearchFiles ==
    /\ call.pc = "idle"
    /\ call' = [Idle EXCEPT !.op = "searchFiles", !.pc = "embed"]
    /\ UNCHANGED <<chunkVars, codeVars, tables, summaryVars, knowledgeVars, storeVars, ingestVars>>

\* generateEmbedding(query): the provider answers with a vector, or fails
\* and generateEmbedding rethrows
GenerateQueryEmbedding ==
    /\ call.pc = "embed"
    /\ \/ \E v \in Vectors :
            call' = IF call.op = "searchFiles"
                    THEN [call EXCEPT !.pc = "returned", !.vec = v]
                    ELSE [call EXCEPT !.pc = "getUser", !.vec = v]
       \/ \E e \in {"ProviderUnavailable", "ProviderRejected"} : Fail(e)
    /\ UNCHANGED <<chunkVars, codeVars, tables, summaryVars, knowledgeVars, storeVars, ingestVars>>

\* getCurrentUserId(): supabase.auth.getUser(), 'Not authenticated' without
\* a user
\* the accessors that insert one row, and the table each writes
WriteTable ==
    [saveMessage |-> "messages", addKnowledgeNode |-> "knowledge_nodes",
     saveFileMetadata |-> "files"]

\* the accessors that read a user's rows, and the table each reads
ReadTable ==
    [getRecentMessages |-> "messages", getKnowledgeNodes |-> "knowledge_nodes",
     getFiles |-> "files"]

GetCurrentUserId ==
    /\ call.pc = "getUser"
    /\ IF currentUser = NoUser
       THEN Fail("NotAuthenticated")
       ELSE call' = [call EXCEPT !.userId = currentUser,
                        !.pc = CASE call.op = "saveEmbedding" -> "insert"
                                 [] call.op \in DOMAIN WriteTable -> "insertRow"
                                 [] call.op \in DOMAIN ReadTable -> "select"
                                 [] OTHER -> "rpc"]
    /\ UNCHANGED <<chunkVars, codeVars, tables, summaryVars, knowledgeVars, storeVars, ingestVars>>

\* saveEmbedding: supabase.from('embeddings').insert({...}).select().single()
InsertEmbedding ==
    /\ call.pc = "insert"
    /\ LET row == NewRow(call.userId, "message", 1, <<"text", 0, 0>>, call.vec)
       IN IF ~vector_dimension_ok(call.vec)
          THEN /\ Fail("InvalidDimension")
               /\ UNCHANGED <<embeddings, nextId, clock>>
          ELSE IF embeddings_policy(row, currentUser)
          THEN /\ embeddings' = Inserted(embeddings, row)
               /\ nextId' = nextId + 1
               /\ clock' = clock + 1
               /\ call' = [call EXCEPT !.pc = "returned", !.rows = <<row.id>>,
                                       !.issuedAs = currentUser]
          ELSE /\ Fail("RowSecurity")
               /\ UNCHANGED <<embeddings, nextId, clock>>
    /\ UNCHANGED <<chunkVars, codeVars, tables, summaryVars, knowledgeVars, currentUser, ingestVars>>

\* searchEmbeddings: supabase.rpc('match_embeddings', {...}); return data
RpcMatchEmbeddings ==
    /\ call.pc = "rpc"
    /\ LET a == MatchArgs(call.vec, call.limit, call.userId)
           found == match_embeddings(VisibleRows(currentUser), a.query_embedding,
                        a.match_threshold, a.match_count, a.user_id)
       IN call' = [call EXCEPT !.pc = "returned", !.rows = found,
                     !.issuedAs = currentUser,
                     !.data = IF call.op = "getRelevantContext"
                              THEN ContextOf(found) ELSE found]
    /\ UNCHANGED <<chunkVars, codeVars, tables, summaryVars, knowledgeVars, storeVars, ingestVars>>

\* the caller takes the outcome
Return ==
    /\ Ended
    /\ call' = Idle
    /\ UNCHANGED <<chunkVars, codeVars, tables, summaryVars, knowledgeVars, storeVars, ingestVars>>

\* the session of the singleton client changes: a sign-in or a sign-out
SetSession(u) ==
    /\ u # currentUser
    /\ currentUser' = u
    /\ UNCHANGED <<chunkVars, codeVars, tables, summaryVars, knowledgeVars, embeddings, nextId, clock, call, ingestVars>>

StoreInit ==
    /\ text = <<>> /\ maxChunkSize = 1 /\ chunks = <<>> /\ cpc = "done"
    /\ run = NoRun
    /\ embeddings = {}
    /\ nextId = 1
    /\ clock = 1
    /\ currentUser \in Users \cup {NoUser}
    /\ call = Idle
    /\ files = {}
    /\ proc = [p \in Procs |-> NotStarted]
    /\ CodeAtRest
    /\ tables = NoRows
    /\ SummariesAtRest
    /\ KnowledgeAtRest

StoreNext ==
    \/ \E v \in Vectors : CallSaveEmbedding(v)
    \/ \E q \in Vectors, k \in 1..MaxLimit : CallSearchEmbeddings(q, k)
    \/ CallGetRelevantContext
    \/ CallSearchFiles
    \/ GenerateQueryEmbedding
    \/ GetCurrentUserId
    \/ InsertEmbedding
    \/ RpcMatchEmbeddings
    \/ Return
    \/ \E u \in Users \cup {NoUser} : SetSession(u)

StoreSpec == StoreInit /\ [][StoreNext]_vars

-----------------------------------------------------------------------------
(* processFile: the ingestion of an uploaded file.  Every await is a step. *)
(* The text of the file is known by the number n of chunks chunkText cuts  *)
(* it in; chunk i of file f has content <<"chunk", f, i>>.                 *)

\* a catch block that logs the error and lets the call return
CatchReturns == "returned"

\* processFile: catch (error) { console.error(...); throw error; }
processFileCatch == "threw"

\* the call ends in the catch block of processFile with error e
Caught(pr, e) ==
    [pr EXCEPT !.pc = processFileCatch, !.failure = e, !.failedAt = pr.i]

\* a loop that steps over every other chunk
AfterChunkStride(pr) ==
    [pr EXCEPT !.i = pr.i + 2, !.attempts = 0,
               !.pc = IF pr.i + 2 < pr.n THEN "generateEmbedding" ELSE "logEvent"]

\* the position after the body of the loop for chunk i
AfterChunk(pr) ==
    [pr EXCEPT !.i = pr.i + 1, !.attempts = 0,
               !.pc = IF pr.i + 1 < pr.n THEN "generateEmbedding" ELSE "logEvent"]

\* a loop that notes the failed chunk and goes on with the next one
EmbeddingErrorSkips(pr, e) ==
    [AfterChunk(pr) EXCEPT !.failure = e, !.failedAt = pr.i]

\* a loop that notes the failure and asks the provider again
EmbeddingErrorRetries(pr, e) == [pr EXCEPT !.failure = e]

\* generateEmbedding rethrows the provider's error (catch, console.error,
\* throw), and the loop of processFile has no handler of its own: the error
\* leaves the loop for the catch block of processFile
EmbeddingError(pr, e) == Caught(pr, e)

\* processFile(file, fileName, fileType, userId) is called: the file is
\* written, its text extracted and summarised
StartProcessFile(p, u, n) ==
    /\ proc[p].pc = "idle"
    /\ proc' = [proc EXCEPT ![p] = [NotStarted EXCEPT !.pc = "saveFileMetadata",
                                                      !.userId = u, !.n = n]]
    /\ UNCHANGED <<chunkVars, codeVars, tables, summaryVars, knowledgeVars, storeVars, call, files>>

\* saveFileMetadata: getCurrentUserId, then the insert into files
SaveFileMetadata(p) ==
    /\ proc[p].pc = "saveFileMetadata"
    /\ \/ /\ currentUser # NoUser
          /\ files' = Inserted(files, NewFileRow(currentUser))
          /\ nextId' = nextId + 1
          /\ proc' = [proc EXCEPT ![p] =
                        [@ EXCEPT !.fileId = nextId,
                                  !.pc = IF 0 < proc[p].n THEN "generateEmbedding"
                                         ELSE "logEvent"]]
       \/ /\ currentUser = NoUser
          /\ proc' = [proc EXCEPT ![p] = Caught(@, "NotAuthenticated")]
          /\ UNCHANGED <<files, nextId>>
       \/ /\ currentUser # NoUser
          /\ proc' = [proc EXCEPT ![p] = Caught(@, "StoreError")]
          /\ UNCHANGED <<files, nextId>>
    /\ UNCHANGED <<chunkVars, codeVars, tables, summaryVars, knowledgeVars, embeddings, clock, currentUser, call>>

\* const embedding = await generateEmbedding(chunk)
GenerateEmbedding(p) ==
    /\ proc[p].pc = "generateEmbedding"
    /\ LET called == [proc[p] EXCEPT !.attempts = @ + 1]
       IN \/ \E v \in ProviderVectors :
               proc' = [proc EXCEPT ![p] =
                          [called EXCEPT !.embedding = v,
                                         !.computed = Append(@, v),
                                         !.pc = "saveEmbedding"]]
          \/ \E e \in {"ProviderUnavailable", "ProviderRejected"} :
               proc' = [proc EXCEPT ![p] = EmbeddingError(called, e)]
    /\ UNCHANGED <<chunkVars, codeVars, tables, summaryVars, knowledgeVars, storeVars, call, files>>

\* a variable of the module that the calls in flight share: another call
\* that has computed a vector and not yet saved it has overwritten it
SharedEmbedding(pr) ==
    IF \E q \in DOMAIN proc : proc[q] # pr /\ proc[q].pc = "saveEmbedding"
    THEN proc[CHOOSE q \in DOMAIN proc :
                  proc[q] # pr /\ proc[q].pc = "saveEmbedding"].embedding
    ELSE pr.embedding

\* const embedding = ...: a constant of the body of the loop, one per call
\* and per chunk
ChunkEmbedding(pr) == pr.embedding

\* await saveEmbedding('file', fileRecord.id, chunk, embedding)
SaveEmbedding(p) ==
    /\ proc[p].pc = "saveEmbedding"
    /\ LET pr == proc[p]
           row == NewRow(currentUser, "file", pr.fileId,
                         <<"chunk", pr.fileId, pr.i>>, ChunkEmbedding(pr))
       IN \/ /\ currentUser # NoUser
             /\ embeddings_policy(row, currentUser)
             /\ embeddings' = Inserted(embeddings, row)
             /\ nextId' = nextId + 1
             /\ clock' = clock + 1
             /\ proc' = [proc EXCEPT ![p] = [@ EXCEPT !.pc = "processTextForKnowledge"]]
          \/ /\ proc' = [proc EXCEPT ![p] =
                           Caught(@, IF currentUser = NoUser
                                     THEN "NotAuthenticated" ELSE "StoreError")]
             /\ UNCHANGED <<embeddings, nextId, clock>>
    /\ UNCHANGED <<chunkVars, codeVars, tables, summaryVars, knowledgeVars, currentUser, call, files>>

\* await processTextForKnowledge(chunk, `file:${fileName}#chunk${i}`, userId):
\* it extracts no entity or one; for an entity it adds a knowledge node,
\* asks for its embedding and saves it under the node's id; it throws when
\* one of its awaits fails, before or after that row was written
ProcessTextForKnowledge(p) ==
    /\ proc[p].pc = "processTextForKnowledge"
    /\ LET pr == proc[p]
           saved(v) == Inserted(embeddings,
                          NewRow(currentUser, "knowledge_node", nextId,
                                 <<"entity", pr.fileId, pr.i>>, v))
       IN \/ /\ proc' = [proc EXCEPT ![p] = AfterChunk(@)]
             /\ UNCHANGED <<embeddings, nextId, clock>>
          \/ \E v \in ProviderVectors :
                /\ currentUser # NoUser
                /\ embeddings' = saved(v)
                /\ nextId' = nextId + 2
                /\ clock' = clock + 1
                /\ proc' = [proc EXCEPT ![p] = AfterChunk(@)]
          \/ /\ proc' = [proc EXCEPT ![p] = Caught(@, "KnowledgeError")]
             /\ UNCHANGED <<embeddings, nextId, clock>>
          \/ \E v \in ProviderVectors :
                /\ currentUser # NoUser
                /\ embeddings' = saved(v)
                /\ nextId' = nextId + 2
                /\ clock' = clock + 1
                /\ proc' = [proc EXCEPT ![p] = Caught(@, "KnowledgeError")]
    /\ UNCHANGED <<chunkVars, codeVars, tables, summaryVars, knowledgeVars, currentUser, call, files>>

\* await logEvent('file_upload', ...); return { id: fileRecord.id, ... }
LogEventAndReturn(p) ==
    /\ proc[p].pc = "logEvent"
    /\ \/ proc' = [proc EXCEPT ![p] = [@ EXCEPT !.pc = "returned",
                                                !.result = proc[p].fileId]]
       \/ proc' = [proc EXCEPT ![p] = Caught(@, "StoreError")]
    /\ UNCHANGED <<chunkVars, codeVars, tables, summaryVars, knowledgeVars, storeVars, call, files>>

IngestInit ==
    /\ text = <<>> /\ maxChunkSize = 1 /\ chunks = <<>> /\ cpc = "done"
    /\ run = NoRun
    /\ embeddings = {}
    /\ nextId = 1
    /\ clock = 1
    /\ currentUser \in Users \cup {NoUser}
    /\ call = Idle
    /\ files = {}
    /\ proc = [p \in Procs |-> NotStarted]
    /\ CodeAtRest
    /\ tables = NoRows
    /\ SummariesAtRest
    /\ KnowledgeAtRest

IngestNext ==
    \E p \in Procs :
        \/ \E u \in Users, n \in 0..MaxChunks : StartProcessFile(p, u, n)
        \/ SaveFileMetadata(p)
        \/ GenerateEmbedding(p)
        \/ SaveEmbedding(p)
        \/ ProcessTextForKnowledge(p)
        \/ LogEventAndReturn(p)

IngestSpec == IngestInit /\ [][IngestNext]_vars

\* the ordinals of the chunks of p's file that have a row in the store
StoredOrdinals(p) ==
    {r.content[3] : r \in {x \in embeddings :
                             /\ x.source_type = "file"
                             /\ x.source_id = proc[p].fileId}}

FileRows(p) ==
    {x \in embeddings : x.source_type = "file" /\ x.source_id = proc[p].fileId}

IngestEnded(p) == proc[p].pc \in {"returned", "threw"}

\* C3 as stated: a rejected chunk is skipped and the ingestion goes on: for
\* a document of 5 chunks whose chunk 2 is rejected, the call returns with
\* the records of ordinals {0,1,3,4}.
RejectedChunkSkipped ==
    \A p \in Procs :
        (/\ IngestEnded(p)
         /\ proc[p].n = 5
         /\ proc[p].failure = "ProviderRejected"
         /\ proc[p].failedAt = 2)
            => (proc[p].pc = "returned" /\ StoredOrdinals(p) = {0, 1, 3, 4})

\* C3 as amended: when the provider rejects a chunk, processFile does not
\* skip it: the call ends at once by rethrowing the error, no later chunk is
\* embedded or stored, and the rows of the chunks before it stay in the
\* store (ordinals {0,1} for a rejection at ordinal 2); nothing is returned.
RejectedChunkAborts ==
    \A p \in Procs :
        proc[p].failure = "ProviderRejected" =>
            /\ proc[p].pc = "threw"
            /\ proc[p].i = proc[p].failedAt
            /\ StoredOrdinals(p) = 0..(proc[p].failedAt - 1)
            /\ proc[p].result = NoFile

\* chunk 2 of a document of 5 chunks has been rejected
RejectedChunkWitness ==
    \E p \in Procs :
        /\ proc[p].n = 5
        /\ proc[p].failure = "ProviderRejected"
        /\ proc[p].failedAt = 2
        /\ IngestEnded(p)
        /\ StoredOrdinals(p) = {0, 1}

\* C4 as stated: when the provider is unavailable for a chunk, the remaining
\* chunks are not processed and the call returns the records written so far
\* with the failed ordinals; it does not end by throwing to the caller.
UnavailableReturnsPartial ==
    \A p \in Procs :
        (IngestEnded(p) /\ proc[p].failure = "ProviderUnavailable")
            => proc[p].pc = "returned"

\* C4 as amended: when the provider is unavailable for a chunk, the remaining
\* chunks are not processed and the call ends by throwing the error to its
\* caller; the rows written so far stay in the store but the caller is given
\* neither them nor the failed ordinal.
UnavailableThrows ==
    \A p \in Procs :
        proc[p].failure = "ProviderUnavailable" =>
            /\ proc[p].pc = "threw"
            /\ proc[p].result = NoFile
            /\ \A o \in StoredOrdinals(p) : o < proc[p].failedAt
            /\ Cardinality(FileRows(p)) = proc[p].failedAt

\* the provider was unavailable for a chunk after some chunks were stored
UnavailableWitness ==
    \E p \in Procs :
        /\ proc[p].failure = "ProviderUnavailable"
        /\ IngestEnded(p)
        /\ proc[p].failedAt >= 1
        /\ proc[p].failedAt < proc[p].n - 1
        /\ FileRows(p) # {}

\* the chunks the call reports to its caller as done: all of them when it
\* returns the file, none when it throws
ReportedOrdinals(p) ==
    IF proc[p].pc = "returned" THEN 0..(proc[p].n - 1) ELSE {}

\* C5 as stated: whenever an ingest call ends, normally or after a failure,
\* the rows persisted for the source are exactly the chunks reported done.
IngestConsistent ==
    \A p \in Procs : IngestEnded(p) => StoredOrdinals(p) = ReportedOrdinals(p)

\* C5 as amended: when an ingest call returns normally, every chunk of the
\* text has exactly one persisted row; when it ends by an error at chunk i,
\* the rows of the chunks 0..i-1, and of chunk i as well when the error came
\* after its write, stay persisted although the caller is told of none.
IngestOutcome ==
    \A p \in Procs :
        /\ proc[p].pc = "returned" =>
              /\ StoredOrdinals(p) = 0..(proc[p].n - 1)
              /\ Cardinality(FileRows(p)) = proc[p].n
        /\ proc[p].pc = "threw" =>
              /\ StoredOrdinals(p) \in {0..(proc[p].i - 1), 0..proc[p].i}
              /\ Cardinality(FileRows(p)) = Cardinality(StoredOrdinals(p))
              /\ StoredOrdinals(p) \subseteq 0..(proc[p].n - 1)
              /\ proc[p].result = NoFile

\* a call has ended by an error that came after the write of chunk 1: the
\* rows of chunks 0 and 1 are in the store and the caller knows of none
IngestOutcomeWitness ==
    \E p \in Procs :
        /\ proc[p].pc = "threw"
        /\ proc[p].n >= 3
        /\ proc[p].i = 1
        /\ StoredOrdinals(p) = {0, 1}

\* C15 as stated: a transient ProviderUnavailable failure of an embedding
\* call is retried, up to 3 attempts, before the caller gives up, a
\* ProviderRejected is surfaced after the first attempt, and no request is
\* attempted more than 3 times: an ingest that ends on ProviderUnavailable
\* has made more than one attempt.
TransientRetried ==
    \A p \in Procs :
        /\ proc[p].attempts <= 3
        /\ proc[p].failure = "ProviderRejected" => proc[p].attempts = 1
        /\ (IngestEnded(p) /\ proc[p].failure = "ProviderUnavailable")
              => proc[p].attempts > 1

\* C15 as amended: no embedding call is retried: the embedding of a chunk is
\* requested at most once, and a failure of the provider, ProviderUnavailable
\* as well as ProviderRejected, is surfaced after that first attempt and ends
\* the ingest by rethrowing at the chunk it occurred on.
NoRetry ==
    \A p \in Procs :
        /\ proc[p].attempts <= 1
        /\ proc[p].failure \in {"ProviderUnavailable", "ProviderRejected"}
              => /\ proc[p].pc = "threw"
                 /\ proc[p].attempts = 1
                 /\ proc[p].failedAt = proc[p].i

\* after a chunk embedded and stored, one transient failure has ended the
\* ingest
NoRetryWitness ==
    \E p \in Procs :
        /\ proc[p].pc = "threw"
        /\ proc[p].failure = "ProviderUnavailable"
        /\ proc[p].attempts = 1
        /\ proc[p].i >= 1
        /\ StoredOrdinals(p) # {}

\* C21: within one ingest call the chunks are processed in ordinal order and
\* one at a time: while the embedding of chunk i is requested or about to be
\* stored, the rows of the source are those of the chunks 0..i-1, one per
\* chunk, and the call has asked for the chunks 0..i only; at every moment
\* the persisted rows of the source form a prefix of the chunk sequence.
ChunksInOrdinalOrder ==
    \A p \in Procs :
        /\ \E j \in 0..proc[p].n : StoredOrdinals(p) = 0..(j - 1)
        /\ Cardinality(FileRows(p)) = Cardinality(StoredOrdinals(p))
        /\ proc[p].pc = "generateEmbedding" =>
              /\ StoredOrdinals(p) = 0..(proc[p].i - 1)
              /\ Len(proc[p].computed) = proc[p].i
        /\ proc[p].pc = "saveEmbedding" =>
              /\ StoredOrdinals(p) = 0..(proc[p].i - 1)
              /\ Len(proc[p].computed) = proc[p].i + 1
        /\ proc[p].pc = "processTextForKnowledge" =>
              StoredOrdinals(p) = 0..proc[p].i

\* the embedding of chunk 2 is requested after the rows of chunks 0 and 1
\* were stored
ChunksInOrderWitness ==
    \E p \in Procs :
        /\ proc[p].pc = "saveEmbedding"
        /\ proc[p].i = 2
        /\ StoredOrdinals(p) = {0, 1}

-----------------------------------------------------------------------------
(* Claims about the embedding store and the retrieval of context *)

RowOf(id) == CHOOSE r \in embeddings : r.id = id

SearchReturned == call.op = "searchEmbeddings" /\ call.pc = "returned"

\* C2: a record inserted while A is the current user is never returned by a
\* search issued while another user B is the current user, whatever the
\* query vector, the limit and the similarity of the record.
ScopeIsolation ==
    (call.pc = "returned" /\ call.op \in {"searchEmbeddings", "getRelevantContext"})
        => \A i \in 1..Len(call.rows) :
              RowOf(call.rows[i].id).insertedAs = call.issuedAs

\* a search of u2 has returned a record of u2 while the store holds a record
\* of u1 with the same vector, hence the same similarity
ScopeIsolationWitness ==
    /\ SearchReturned
    /\ call.issuedAs = "u2"
    /\ Len(call.rows) > 0
    /\ \E r \in embeddings :
          /\ r.insertedAs = "u1"
          /\ r.embedding = RowOf(call.rows[1].id).embedding

\* the records a search may return: those of its scope that the session
\* sees and that are similar enough
Eligible ==
    {r \in embeddings :
        /\ r.user_id = call.userId
        /\ r.user_id = call.issuedAs
        /\ SimAtLeast(Similarity(call.vec, r.embedding), MatchThresholdTenths)}

Returned == {RowOf(call.rows[i].id) : i \in 1..Len(call.rows)}

\* C9: a search with limit k returns at most k records, all of the querying
\* scope and all with similarity >= the threshold (0.7 in searchEmbeddings),
\* and they are the k most similar ones: it returns k records when k or more
\* qualify, and no record left out is more similar than a returned one.
TopKMostSimilar ==
    SearchReturned =>
        /\ Len(call.rows) = Min(call.limit, Cardinality(Eligible))
        /\ Cardinality(Returned) = Len(call.rows)
        /\ Returned \subseteq Eligible
        /\ \A i \in 1..Len(call.rows) :
              SimEq(call.rows[i].similarity,
                    Similarity(call.vec, RowOf(call.rows[i].id).embedding))
        /\ \A out \in Eligible \ Returned : \A r \in Returned :
              ~SimLess(Similarity(call.vec, r.embedding),
                       Similarity(call.vec, out.embedding))

\* the scenario of the specification: vectors [1,0], [0.9,0.1], [0,1] of one
\* user, queried with [1,0] and k = 2, return the first two in that order
TopKWitness ==
    /\ SearchReturned
    /\ call.vec = <<1, 0>> /\ call.limit = 2
    /\ {r.embedding : r \in VisibleRows(call.issuedAs)} = Vectors
    /\ Cardinality(embeddings) = 3
    /\ Len(call.rows) = 2
    /\ RowOf(call.rows[1].id).embedding = <<1, 0>>
    /\ RowOf(call.rows[2].id).embedding = <<9, 1>>

ProviderFailed == call.failure \in {"ProviderUnavailable", "ProviderRejected"}

\* C6 as stated: when the embedding call for the query fails, the retrieval
\* fails as a whole: the failure reaches the caller and is never turned into
\* an empty result.
RetrievalFailureSurfaced ==
    (Ended /\ ProviderFailed) => call.pc = "threw"

\* C6 as amended: when the embedding call for the query fails, searchFiles
\* fails as a whole and rethrows, but getRelevantContext catches the failure,
\* as it catches a failure of the store search, and returns the empty
\* context, the value it also returns when nothing matches.
RetrievalFailureOutcome ==
    (Ended /\ call.failure # "none") =>
        IF call.op = "getRelevantContext"
        THEN call.pc = "returned" /\ call.data = <<>>
        ELSE call.pc = "threw"

\* getRelevantContext has ended after the provider failed
RetrievalFailureWitness ==
    /\ call.op = "getRelevantContext"
    /\ Ended
    /\ ProviderFailed

\* the context read back: an entry starts at each "[Source: " and runs up
\* to the separator before the next one, or to the end
SourceMarks(ctx) == {p \in 1..Len(ctx) : ctx[p] = "[Source: "}

EntryAt(ctx, p) ==
    LET later == {q \in SourceMarks(ctx) : q > p}
        last == IF later = {} THEN Len(ctx)
                ELSE (CHOOSE q \in later : \A o \in later : q <= o) - 2
    IN [source_type |-> ctx[p + 1], source_id |-> ctx[p + 3],
        content |-> Slice(ctx, p + 7, last)]

EntriesOf(ctx) ==
    [i \in 1..Cardinality(SourceMarks(ctx)) |->
        EntryAt(ctx, CHOOSE p \in SourceMarks(ctx) :
                        Cardinality({q \in SourceMarks(ctx) : q < p}) = i - 1)]

-----------------------------------------------------------------------------
(* The specification of chunkText: any text, any positive maxChunkSize *)

ChunkInit ==
    /\ text \in Texts
    /\ maxChunkSize \in 1..MaxSize
    /\ chunks = <<>>
    /\ cpc = "call"
    /\ run = NoRun
    /\ embeddings = {} /\ nextId = 1 /\ clock = 1 /\ currentUser = NoUser
    /\ call = Idle
    /\ files = {}
    /\ proc = [p \in Procs |-> NotStarted]
    /\ CodeAtRest
    /\ tables = NoRows
    /\ SummariesAtRest
    /\ KnowledgeAtRest

CallChunkText ==
    /\ cpc = "call"
    /\ chunks' = chunkText(text, maxChunkSize)
    /\ cpc' = "done"
    /\ UNCHANGED <<text, maxChunkSize, run, storeVars, call, ingestVars, codeVars, tables,
                   summaryVars, knowledgeVars>>

ChunkNext == CallChunkText

ChunkSpec == ChunkInit /\ [][ChunkNext]_vars

-----------------------------------------------------------------------------
(* Claims about chunkText *)

\* C1: every chunk returned by chunkText(text, N) has length <= N, also a
\* chunk built by joining paragraphs (with a blank line) or sentences (with
\* a space).
ChunkSizeBound ==
    cpc = "done" => \A i \in 1..Len(chunks) : Len(chunks[i]) <= maxChunkSize

\* C7 as stated: joining the returned chunks reconstructs the original text
\* exactly, whichever way the join separator is treated: the chunks put end
\* to end, joined with the paragraph or the sentence separator, or put end
\* to end with the separators stripped.
ChunkRoundTripExact ==
    cpc = "done" =>
        text \in {Concat(chunks), JoinWith(chunks, <<NL, NL>>),
                  JoinWith(chunks, <<SP>>), StripSpace(Concat(chunks))}

\* C7 as amended: the chunks put end to end are the original text exactly
\* when the text is returned as one chunk (it is no longer than
\* maxChunkSize) or holds no whitespace.
ChunkRoundTripUnsplit ==
    (cpc = "done" /\ (Len(text) <= maxChunkSize \/ StripSpace(text) = text))
        => Concat(chunks) = text

\* a text without whitespace, longer than maxChunkSize, has been cut in
\* fixed-width slices, the last one shorter
ChunkRoundTripWitness ==
    /\ cpc = "done"
    /\ Len(text) > maxChunkSize
    /\ StripSpace(text) = text
    /\ Len(chunks) >= 2
    /\ Len(chunks[Len(chunks)]) < maxChunkSize

\* C8: the non-whitespace characters of the chunks, read in chunk order, are
\* the non-whitespace characters of the text in the original order.
ChunkContentPreserved ==
    cpc = "done" => StripSpace(Concat(chunks)) = StripSpace(text)

\* a text with a paragraph break and a sentence break has been split in
\* several chunks, one of them the join of two pieces
ChunkContentWitness ==
    /\ cpc = "done"
    /\ Len(chunks) >= 2
    /\ \E i \in 1..Len(text) : text[i] = NL
    /\ \E i \in 1..Len(text) : text[i] = SP
    /\ \E i \in 1..Len(chunks) : StripSpace(chunks[i]) # chunks[i]

\* C22 as stated: for every text longer than maxChunkSize all returned
\* chunks are non-empty and at least one chunk is returned; an empty chunk
\* is returned only for the empty text, which gives one empty chunk.
NeverEmptyChunk ==
    cpc = "done" =>
        /\ Len(text) > maxChunkSize =>
              /\ Len(chunks) >= 1
              /\ \A i \in 1..Len(chunks) : Len(chunks[i]) > 0
        /\ (\E i \in 1..Len(chunks) : chunks[i] = <<>>) => text = <<>>
        /\ text = <<>> => chunks = << <<>> >>

\* the text is made of whitespace only and begins and ends with a line
\* feed: the whole of it is one paragraph separator
OnlySeparator(t) ==
    /\ Len(t) >= 2
    /\ StripSpace(t) = <<>>
    /\ t[1] = NL
    /\ t[Len(t)] = NL

\* C22 as amended: for every text longer than maxChunkSize all returned
\* chunks are non-empty, and at least one chunk is returned unless the text
\* is nothing but one paragraph separator (whitespace that begins and ends
\* with a line feed), for which no chunk at all is returned; an empty chunk
\* is returned only for the empty text, which gives one empty chunk.
NoEmptyChunk ==
    cpc = "done" =>
        /\ Len(text) > maxChunkSize =>
              /\ \A i \in 1..Len(chunks) : Len(chunks[i]) > 0
              /\ chunks = <<>> <=> OnlySeparator(text)
        /\ (\E i \in 1..Len(chunks) : chunks[i] = <<>>) => text = <<>>
        /\ text = <<>> => chunks = << <<>> >>

\* a text longer than maxChunkSize that is one paragraph separator has been
\* given no chunk
NoEmptyChunkWitness ==
    /\ cpc = "done"
    /\ Len(text) > maxChunkSize
    /\ OnlySeparator(text)
    /\ chunks = <<>>

\* the elements of a sequence
Range(q) == {q[i] : i \in DOMAIN q}

\* the sentences of t that are longer than n: the pieces longer than n of
\* the paragraphs longer than n
LongSentences(t, n) ==
    UNION {{s \in Range(SplitSentences(p)) : Len(s) > n} :
              p \in {x \in Range(SplitParagraphs(t)) : Len(x) > n}}

\* the number of slices of width n that cover s, and the j-th of them
SliceCount(s, n) == (Len(s) + n - 1) \div n
ExpectedSlice(s, n, j) == SubSeq(s, (j - 1) * n + 1, Min(j * n, Len(s)))

\* the slices of s are consecutive chunks of cs, each a chunk of its own
EmittedAsSlices(s, n, cs) ==
    \E k \in 0..(Len(cs) - SliceCount(s, n)) :
        \A j \in 1..SliceCount(s, n) : cs[k + j] = ExpectedSlice(s, n, j)

\* C23: a sentence longer than maxChunkSize is emitted as consecutive
\* fixed-width slices: every slice but the last has exactly maxChunkSize
\* characters, the last between 1 and maxChunkSize, the slices put end to
\* end give the sentence, and each slice is a chunk of its own, merged with
\* no text of a neighbouring sentence or paragraph.
LongSentenceSliced ==
    cpc = "done" =>
        \A s \in LongSentences(text, maxChunkSize) :
            /\ EmittedAsSlices(s, maxChunkSize, chunks)
            /\ \A j \in 1..(SliceCount(s, maxChunkSize) - 1) :
                  Len(ExpectedSlice(s, maxChunkSize, j)) = maxChunkSize
            /\ Len(ExpectedSlice(s, maxChunkSize, SliceCount(s, maxChunkSize)))
                  \in 1..maxChunkSize
            /\ Concat([j \in 1..SliceCount(s, maxChunkSize) |->
                          ExpectedSlice(s, maxChunkSize, j)]) = s

\* a long sentence followed by another sentence of its paragraph has been
\* cut in slices, the last one shorter than maxChunkSize
LongSentenceWitness ==
    /\ cpc = "done"
    /\ \E p \in Range(SplitParagraphs(text)) :
          /\ Len(SplitSentences(p)) >= 2
          /\ Len(SplitSentences(p)[1]) > maxChunkSize
          /\ Len(SplitSentences(p)[1]) % maxChunkSize # 0
          /\ Len(SplitSentences(p)[2]) > 0
          /\ EmittedAsSlices(SplitSentences(p)[1], maxChunkSize, chunks)

\* The pieces chunkText accumulates, in text order: a paragraph that fits
\* in n is one piece, joined to the buffer by a blank line; a longer
\* paragraph gives its sentences, joined by a space, the first of them after
\* a flush (the buffer and the paragraph together exceed n); a sentence
\* longer than n gives its slices, each a chunk of its own.
SentencePieces(s, n, first) ==
    IF Len(s) > n
    THEN [j \in 1..SliceCount(s, n) |->
            [s |-> ExpectedSlice(s, n, j), sep |-> <<>>, alone |-> TRUE,
             fresh |-> TRUE]]
    ELSE <<[s |-> s, sep |-> <<SP>>, alone |-> FALSE, fresh |-> first]>>

RECURSIVE SentencesPieces(_, _, _)
SentencesPieces(ss, n, first) ==
    IF ss = <<>> THEN <<>>
    ELSE SentencePieces(Head(ss), n, first) \o SentencesPieces(Tail(ss), n, FALSE)

RECURSIVE Pieces(_, _)
Pieces(ps, n) ==
    IF ps = <<>> THEN <<>>
    ELSE (IF Len(Head(ps)) > n
          THEN SentencesPieces(SplitSentences(Head(ps)), n, TRUE)
          ELSE <<[s |-> Head(ps), sep |-> <<NL, NL>>, alone |-> FALSE,
                  fresh |-> FALSE]>>)
         \o Pieces(Tail(ps), n)

\* the buffer emitted as one chunk, when it holds something
Flushed(out, buf) == IF Len(buf) > 0 THEN Append(out, buf) ELSE out

\* accumulate and flush: a piece is added to the buffer unless the buffer
\* and the piece together would exceed n; then, and before a piece that
\* comes after a flush, the buffer is emitted and a new one starts
RECURSIVE Greedy(_, _, _, _)
Greedy(out, buf, pieces, n) ==
    IF pieces = <<>> THEN Flushed(out, buf)
    ELSE LET u == Head(pieces)
         IN IF u.alone
            THEN Greedy(Append(Flushed(out, buf), u.s), <<>>, Tail(pieces), n)
            ELSE IF u.fresh \/ Len(buf) + Len(u.s) > n
            THEN Greedy(Flushed(out, buf), u.s, Tail(pieces), n)
            ELSE Greedy(out,
                        buf \o (IF Len(buf) > 0 THEN u.sep ELSE <<>>) \o u.s,
                        Tail(pieces), n)

\* s occurs in c as a run of consecutive characters
OccursIn(s, c) ==
    \E k \in 0..(Len(c) - Len(s)) : SubSeq(c, k + 1, k + Len(s)) = s

\* C24: for a text longer than maxChunkSize the chunks are those of the
\* greedy accumulation of its paragraphs: a chunk boundary falls between two
\* consecutive pieces only when the buffer and the next piece together would
\* exceed maxChunkSize; a paragraph that fits in maxChunkSize lies whole in
\* one chunk; a longer paragraph is cut into its sentences, accumulated by
\* the same rule.
GreedyAccumulation ==
    (cpc = "done" /\ Len(text) > maxChunkSize) =>
        /\ chunks = Greedy(<<>>, <<>>,
                           Pieces(SplitParagraphs(text), maxChunkSize),
                           maxChunkSize)
        /\ \A p \in Range(SplitParagraphs(text)) :
              (Len(p) <= maxChunkSize /\ Len(p) > 0) =>
                  \E i \in 1..Len(chunks) : OccursIn(p, chunks[i])

\* two paragraphs have been joined in one chunk and a third one, which did
\* not fit the buffer, starts the next chunk
GreedyWitness ==
    /\ cpc = "done"
    /\ Len(text) > maxChunkSize
    /\ LET ps == SplitParagraphs(text)
       IN /\ Len(ps) = 3
          /\ \A i \in 1..3 : Len(ps[i]) > 0 /\ Len(ps[i]) <= maxChunkSize
          /\ chunks = <<ps[1] \o <<NL, NL>> \o ps[2], ps[3]>>

\* chunkText is called with any text up to MaxRunLen and any size > 0
ChunkRunInit ==
    /\ text \in {t \in Texts : Len(t) <= MaxRunLen}
    /\ maxChunkSize \in 1..MaxSize
    /\ chunks = <<>>
    /\ cpc = "entry"
    /\ run = NoRun
    /\ embeddings = {} /\ nextId = 1 /\ clock = 1 /\ currentUser = NoUser
    /\ call = Idle
    /\ files = {}
    /\ proc = [p \in Procs |-> NotStarted]
    /\ CodeAtRest
    /\ tables = NoRows
    /\ SummariesAtRest
    /\ KnowledgeAtRest

ChunkRunNext ==
    \/ EnterChunkText
    \/ ParagraphIteration
    \/ ReturnChunks
    \/ SentenceIteration
    \/ SentencesDone
    \/ SliceIteration
    \/ SlicesDone

\* chunkText is synchronous code: once called it runs, iteration after
\* iteration, with nothing to wait for
ChunkRunSpec == ChunkRunInit /\ [][ChunkRunNext]_vars /\ WF_vars(ChunkRunNext)

\* C25: chunkText terminates for every text and every maxChunkSize > 0:
\* every run of its loops reaches the return, with the chunks the function
\* computes; no step of it waits or fails.
ChunkTextTerminates ==
    <>(cpc = "done" /\ chunks = chunkText(text, maxChunkSize))

\* a run has returned after the slicing loop iterated three times or more
\* on one sentence, inside the loops over the sentences and the paragraphs
ChunkTextTerminatesWitness ==
    /\ cpc = "done"
    /\ run.i >= 3 * maxChunkSize
    /\ Len(chunks) >= 4

-----------------------------------------------------------------------------
(* The life of the rows of one source.  The program has no statement that   *)
(* updates or deletes a row of embeddings or of files; a row of files      *)
(* leaves the store by a DELETE issued on the database, and the schema     *)
(* says what that does to the other tables.                                *)

\* a reference declared with ON DELETE CASCADE: the rows of embeddings that
\* name the deleted file go with it
SourceIdCascades(rows, f) ==
    {r \in rows : ~(r.source_type = "file" /\ r.source_id = f.id)}

\* source_id UUID NOT NULL: the column names no table and has no referential
\* action, so the rows of embeddings stay when the row they name is deleted
SourceIdOnDelete(rows, f) == rows

\* DELETE FROM files WHERE id = f.id, by a session the policy of files lets
\* see the row
DeleteFile(f) ==
    /\ f \in files
    /\ files_private_policy(f, currentUser)
    /\ files' = files \ {f}
    /\ embeddings' = SourceIdOnDelete(embeddings, f)
    /\ UNCHANGED <<chunkVars, codeVars, tables, summaryVars, knowledgeVars, nextId, clock, currentUser, call, proc>>

LifecycleNext ==
    \/ \E p \in Procs :
        \/ \E u \in Users, n \in 0..MaxSourceChunks : StartProcessFile(p, u, n)
        \/ SaveFileMetadata(p)
        \/ GenerateEmbedding(p)
        \/ SaveEmbedding(p)
        \/ ProcessTextForKnowledge(p)
        \/ LogEventAndReturn(p)
    \/ \E f \in files : DeleteFile(f)

LifecycleSpec == IngestInit /\ [][LifecycleNext]_vars

\* the file a row of embeddings was derived from is in the store
SourceExists(r) == \E f \in files : f.id = r.source_id

\* C12: a persisted embedding record never changes (its owner, source
\* reference, content and vector stay what they were at creation), it leaves
\* the store only in a step that deletes the file it was derived from, and
\* the deletion of a file takes all of that file's records with it.
EmbeddingsFollowSource ==
    [][/\ \A r \in embeddings' :
            (\E o \in embeddings : o.id = r.id) => r \in embeddings
       /\ \A r \in embeddings :
            r \notin embeddings' =>
                (r.source_type = "file" /\ SourceExists(r) /\ ~SourceExists(r)')
       /\ \A r \in embeddings :
            (r.source_type = "file" /\ SourceExists(r) /\ ~SourceExists(r)')
                => (r \notin embeddings')]_vars

-----------------------------------------------------------------------------
(* An upload while the session of the client changes.  The route           *)
(* pages/api/files/upload asks getCurrentUserId() for the user and hands   *)
(* it to processFile; every accessor of the store asks the one client of   *)
(* the module again, and another request may have changed its session at   *)
(* any await in between.                                                   *)

\* const userId = await getCurrentUserId(); ... processFile(fileBuffer,
\* fileName, fileType, userId); without a user the route answers 500
UploadFile(p, n) ==
    /\ currentUser # NoUser
    /\ StartProcessFile(p, currentUser, n)

SessionNext ==
    \/ \E p \in Procs :
        \/ \E n \in 1..MaxSourceChunks : UploadFile(p, n)
        \/ SaveFileMetadata(p)
        \/ GenerateEmbedding(p)
        \/ SaveEmbedding(p)
        \/ ProcessTextForKnowledge(p)
        \/ LogEventAndReturn(p)
    \/ \E u \in Users \cup {NoUser} : SetSession(u)

SessionSpec == IngestInit /\ [][SessionNext]_vars

\* the rows of embeddings written by the ingest of upload p: those of the
\* chunks of its file and those of the entities found in them
WrittenBy(p) ==
    {r \in embeddings : proc[p].fileId # NoFile /\ r.content[2] = proc[p].fileId}

\* C13: every embedding record written during one ingest is scoped to the
\* user on whose behalf the ingest was started, the userId handed to
\* processFile, and so is the row of files, also when the current user of
\* the shared client changes between two writes of the ingest.
IngestOwnerScoped ==
    \A p \in Procs :
        /\ \A r \in WrittenBy(p) : r.user_id = proc[p].userId
        /\ \A f \in files : f.id = proc[p].fileId => f.user_id = proc[p].userId

\* C13, the case of the claim: the session changes between two chunk writes
\* of one ingest and both chunks are stored
OwnerChangesBetweenChunks ==
    \A p \in Procs :
        \A r, q \in WrittenBy(p) :
            (r.source_type = "file" /\ q.source_type = "file")
                => r.user_id = q.user_id

-----------------------------------------------------------------------------
(* Two uploads of the same file in flight at the same time, by one user.   *)
(* Each call of processFile has its own locals (its file record, its       *)
(* chunks, the embedding of the chunk at hand); the calls share the store. *)

Uploads == {"p1", "p2"}

ConcurrentInit ==
    /\ text = <<>> /\ maxChunkSize = 1 /\ chunks = <<>> /\ cpc = "done"
    /\ run = NoRun
    /\ embeddings = {}
    /\ nextId = 1
    /\ clock = 1
    /\ currentUser = "u1"     \* one user, signed in throughout
    /\ call = Idle
    /\ files = {}
    /\ proc = [p \in Uploads |-> NotStarted]
    /\ CodeAtRest
    /\ tables = NoRows
    /\ SummariesAtRest
    /\ KnowledgeAtRest

ConcurrentNext ==
    \E p \in Uploads :
        \/ \E n \in 1..MaxUploadChunks : UploadFile(p, n)
        \/ SaveFileMetadata(p)
        \/ GenerateEmbedding(p)
        \/ SaveEmbedding(p)
        \/ ProcessTextForKnowledge(p)
        \/ LogEventAndReturn(p)

ConcurrentSpec == ConcurrentInit /\ [][ConcurrentNext]_vars

\* the number of chunks whose saveEmbedding has succeeded in upload p: the
\* chunks before chunk i, and chunk i once the call is past its saveEmbedding
Written(p) ==
    proc[p].i +
        (IF \/ proc[p].pc = "processTextForKnowledge"
            \/ (proc[p].pc = "threw" /\ proc[p].failure = "KnowledgeError")
         THEN 1 ELSE 0)

RECURSIVE SumWritten(_)
SumWritten(S) ==
    IF S = {} THEN 0
    ELSE LET p == CHOOSE x \in S : TRUE IN Written(p) + SumWritten(S \ {p})

ChunkRows == {r \in embeddings : r.source_type = "file"}

\* C14: under any interleaving of two concurrent ingests of the same source
\* the store holds duplicate rows and no corrupt one: every record of a
\* chunk pairs the text of one chunk of one of the ingests with the vector
\* the provider computed for that chunk in that ingest, and the number of
\* records is the sum of the chunks each ingest has written.
ConcurrentIngestSound ==
    /\ \A r \in ChunkRows :
          \E p \in Uploads :
              /\ r.source_id = proc[p].fileId
              /\ r.content = <<"chunk", proc[p].fileId, r.content[3]>>
              /\ r.content[3] < Len(proc[p].computed)
              /\ r.embedding = proc[p].computed[r.content[3] + 1]
    /\ Cardinality(ChunkRows) = SumWritten(Uploads)

\* both uploads have returned, their steps interleaved (the upload that
\* wrote its file record first wrote its chunk last), and the store holds
\* the same chunk twice, with the two vectors the provider answered
ConcurrentIngestWitness ==
    /\ \A p \in Uploads : proc[p].pc = "returned"
    /\ \E r, q \in ChunkRows :
          /\ r.source_id < q.source_id
          /\ q.id < r.id
          /\ r.content[3] = q.content[3]
          /\ r.embedding # q.embedding

-----------------------------------------------------------------------------
(* saveEmbedding handed any vector, under any session *)

PutNext ==
    \/ \E v \in PutVectors : CallSaveEmbedding(v)
    \/ GetCurrentUserId
    \/ InsertEmbedding
    \/ Return
    \/ \E u \in Users \cup {NoUser} : SetSession(u)

PutSpec == StoreInit /\ [][PutNext]_vars

IsZeroVector(v) == \A i \in 1..Len(v) : v[i] = 0

\* saveEmbedding is asking for the user and no user is signed in
NoOwnerScope == call.pc = "getUser" /\ currentUser = NoUser

\* C16 as stated: an insert with an absent owner scope, with a vector whose
\* length differs from the dimension D or with a zero vector fails with an
\* error, and the row set of the store is left unchanged: no step of such a
\* call changes the store or lets the call return normally.
InvalidPutRejected ==
    [][(/\ call.op = "saveEmbedding"
        /\ \/ NoOwnerScope
           \/ Len(call.vec) # Dimension
           \/ IsZeroVector(call.vec))
            => (embeddings' = embeddings /\ call'.pc # "returned")]_vars

\* C16 as amended: an insert with an absent owner scope or with a vector
\* whose length differs from the dimension D fails with an error surfaced to
\* the caller and leaves the row set unchanged; a zero vector of length D is
\* not rejected: under a session of the row's owner it is stored like any
\* other vector and the call returns the new row.
InvalidPutOutcome ==
    [][/\ (/\ call.op = "saveEmbedding"
           /\ (NoOwnerScope \/ Len(call.vec) # Dimension))
             => /\ embeddings' = embeddings
                /\ call'.pc # "returned"
                /\ (call' # call /\ call.pc = "insert") => call'.pc = "threw"
                /\ (call' # call /\ NoOwnerScope) => call'.pc = "threw"
       /\ (/\ call.op = "saveEmbedding"
           /\ call.pc = "insert"
           /\ call' # call
           /\ IsZeroVector(call.vec) /\ Len(call.vec) = Dimension
           /\ call.userId = currentUser)
             => /\ call'.pc = "returned"
                /\ \E r \in embeddings' \ embeddings :
                       /\ embeddings' = embeddings \cup {r}
                       /\ r.embedding = call.vec
                       /\ r.user_id = call.userId]_vars

\* the store holds a row with the zero vector, a vector too short has been
\* refused since, and a call without a user has been refused as well
InvalidPutWitness ==
    /\ \E r \in embeddings : IsZeroVector(r.embedding)
    /\ call.op = "saveEmbedding"
    /\ call.pc = "threw"
    /\ \/ call.failure = "InvalidDimension" /\ Len(call.vec) < Dimension
       \/ call.failure = "NotAuthenticated"

-----------------------------------------------------------------------------
(* The specification of the code engine, and the claims about it *)

CodeInit ==
    /\ text = <<>> /\ maxChunkSize = 1 /\ chunks = <<>> /\ cpc = "done"
    /\ run = NoRun
    /\ embeddings = {} /\ nextId = 1 /\ clock = 1 /\ currentUser = NoUser
    /\ call = Idle
    /\ files = {}
    /\ proc = [p \in Procs |-> NotStarted]
    /\ CodeAtRest
    /\ tables = NoRows
    /\ SummariesAtRest
    /\ KnowledgeAtRest

CodeNext ==
    \/ \E c \in NewCodes, e \in Exts, exists \in BOOLEAN : CallApply(c, e, exists)
    \/ WriteNewCode
    \/ TestCodeChanges
    \/ LogApplied
    \/ EventApplied
    \/ CommitAndReturn
    \/ LogReverted
    \/ EventReverted
    \/ CatchRestore
    \/ CatchLog
    \/ CatchEvent
    \/ ReturnApply

CodeSpec == CodeInit /\ [][CodeNext]_vars

\* applyCodeImprovement and rollbackCodeChange on the same file
RollbackNext ==
    \/ CodeNext
    \/ \E backupPath \in 0..MaxSnapshots, exists \in BOOLEAN :
          CallRollback(backupPath, exists)
    \/ WriteBackupCode
    \/ LogRollback
    \/ EventRollback
    \/ ReturnRollback

RollbackSpec == CodeInit /\ [][RollbackNext]_vars

\* no apply has run on the file since the rollback was called
NoApplySince ==
    /\ ~roll.applying
    /\ Len(snapshots) = roll.seen
    /\ apply.pc = "idle" \/ ApplyEnded

\* C30: once applyCodeImprovement has overwritten the target file, the
\* snapshot at its backupPath exists and holds the content the file had
\* before the call; and once a rollbackCodeChange given the backupPath of an
\* earlier apply has written the file, with no other apply on the file since,
\* the file holds exactly the content it had before that apply.
ApplyRollbackRoundTrip ==
    /\ (apply.pc # "idle" /\ apply.wrote) =>
          /\ BackupExists(apply.backupPath)
          /\ snapshots[apply.backupPath].content = apply.before
    /\ (roll.wrote /\ NoApplySince) =>
          target = snapshots[roll.backupPath].original

\* an apply replaced the content of the file and returned success, and a
\* rollback to its backup has returned with the file changed back
ApplyRollbackWitness ==
    /\ roll.pc = "returned"
    /\ NoApplySince
    /\ roll.currentCode = "good"
    /\ code_changes = <<"applied", "reverted">>
    /\ target = InitialCode

\* C17: whenever applyCodeImprovement ends with success = false, or with an
\* error raised after the new code was written, the content of the target
\* file is the content it had before the call.
RollbackRestores ==
    (\/ (apply.pc = "returned" /\ apply.result = "failure")
     \/ (apply.pc = "threw" /\ apply.wrote))
        => target = apply.before

\* new code that passed its test was written and logged as applied, then an
\* await failed, and the call has ended by throwing
RollbackWitness ==
    /\ apply.pc = "threw"
    /\ apply.wrote
    /\ apply.test = "passed"
    /\ apply.newCode # apply.before
    /\ Len(code_changes) > apply.logged
    /\ target = apply.before

\* C18: at every point of an applyCodeImprovement call the target file holds
\* the new code only if that code has already passed its test.
TestedBeforeWritten ==
    (apply.pc # "idle" /\ apply.newCode # apply.before /\ target = apply.newCode)
        => apply.test = "passed"

\* the status of the last row of code_changes
LastStatus == code_changes[Len(code_changes)]

\* C19: every applyCodeImprovement call that wrote to the target file ends
\* with a row of code_changes of its own, and the status of the last row
\* agrees with the final content of the file: 'applied' when the file holds
\* the new code, 'reverted' when it holds the original.
ChangesLoggedConsistently ==
    (ApplyEnded /\ apply.wrote /\ apply.newCode # apply.before)
        => /\ Len(code_changes) > apply.logged
           /\ target = apply.newCode => LastStatus = "applied"
           /\ target = apply.before => LastStatus = "reverted"

(***************************************************************************)
(* The per-user accessors of messages, knowledge nodes and files, and the  *)
(* claim about the isolation of users.                                      *)
(***************************************************************************)

TableRows(t) == IF t = "files" THEN files ELSE tables[t]

\* rows over all three tables; the model stores at most MaxRows of them
StoredRows ==
    Cardinality(files) + Cardinality(tables["messages"])
        + Cardinality(tables["knowledge_nodes"])

\* the row an accessor inserts: user_id is the id getCurrentUserId returned,
\* the other columns take the defaults of the schema
NewTableRow(t, userId) ==
    CASE t = "messages" ->
           [id |-> nextId, user_id |-> userId, created_at |-> created_at_default,
            insertedAs |-> currentUser]
      [] t = "knowledge_nodes" ->
           [id |-> nextId, user_id |-> userId, shared |-> FALSE,
            created_at |-> created_at_default, insertedAs |-> currentUser]
      [] t = "files" -> NewFileRow(userId)

\* saveMessage, addKnowledgeNode, saveFileMetadata: entry
CallWrite(op) ==
    /\ call.pc = "idle"
    /\ StoredRows < MaxRows
    /\ call' = [Idle EXCEPT !.op = op, !.pc = "getUser"]
    /\ UNCHANGED <<chunkVars, codeVars, tables, summaryVars, knowledgeVars, storeVars, ingestVars>>

\* getRecentMessages(limit), getKnowledgeNodes(), getFiles(): entry
CallRead(op, limit) ==
    /\ call.pc = "idle"
    /\ call' = [Idle EXCEPT !.op = op, !.pc = "getUser", !.limit = limit]
    /\ UNCHANGED <<chunkVars, codeVars, tables, summaryVars, knowledgeVars, storeVars, ingestVars>>

\* .from(t).insert({user_id: userId, ...}): the policy of the table is
\* checked against the session of the moment of the insert
InsertRow ==
    /\ call.pc = "insertRow"
    /\ LET t == WriteTable[call.op]
           row == NewTableRow(t, call.userId)
       IN IF TablePolicy(t, row, currentUser)
          THEN /\ IF t = "files"
                  THEN files' = Inserted(files, row) /\ UNCHANGED tables
                  ELSE /\ tables' = [tables EXCEPT ![t] = Inserted(@, row)]
                       /\ UNCHANGED files
               /\ nextId' = nextId + 1
               /\ clock' = clock + 1
               /\ call' = [call EXCEPT !.pc = "returned", !.rows = <<row.id>>,
                                       !.issuedAs = currentUser]
          ELSE /\ Fail("RowSecurity")
               /\ UNCHANGED <<files, tables, nextId, clock>>
    /\ UNCHANGED <<chunkVars, codeVars, summaryVars, knowledgeVars, embeddings,
                   currentUser, proc>>

\* the orders in which a query without ORDER BY may return the rows
Orderings(rows) ==
    {q \in [1..Cardinality(rows) -> rows] :
        \A i, j \in 1..Cardinality(rows) : i # j => q[i] # q[j]}

\* .order('created_at', {ascending: false})
NewestFirst(q) == \A i \in 1..(Len(q) - 1) : q[i].created_at >= q[i + 1].created_at

\* .from(t).select('*').eq('user_id', userId) [.order(...).limit(limit)]:
\* the rows the policy shows to the session of the moment of the query,
\* filtered by the id getCurrentUserId returned
SelectRows ==
    /\ call.pc = "select"
    /\ LET t == ReadTable[call.op]
           found == {r \in TableRows(t) :
                       TablePolicy(t, r, currentUser) /\ r.user_id = call.userId}
       IN \E q \in Orderings(found) :
            /\ t = "messages" => NewestFirst(q)
            /\ call' = [call EXCEPT
                          !.pc = "returned",
                          !.data = IF t = "messages"
                                   THEN SubSeq(q, 1, Min(call.limit, Len(q)))
                                   ELSE q,
                          !.issuedAs = currentUser]
    /\ UNCHANGED <<chunkVars, codeVars, tables, summaryVars, knowledgeVars, storeVars, ingestVars>>

IsolationNext ==
    \/ \E op \in DOMAIN WriteTable : CallWrite(op)
    \/ \E op \in DOMAIN ReadTable, limit \in 1..MaxLimit : CallRead(op, limit)
    \/ GetCurrentUserId
    \/ InsertRow
    \/ SelectRows
    \/ Return
    \/ \E u \in Users \cup {NoUser} : SetSession(u)

IsolationSpec == StoreInit /\ [][IsolationNext]_vars

\* the rows a finished read returned
ReadResult ==
    IF call.pc = "returned" /\ call.op \in DOMAIN ReadTable
    THEN {call.data[i] : i \in DOMAIN call.data}
    ELSE {}

\* C20: every row getRecentMessages, getFiles or getKnowledgeNodes returns
\* was created in a session of the user who is the current user of the read:
\* the user getCurrentUserId returned and the user of the session of the
\* query; no row created by another user is ever returned.
UsersIsolated ==
    \A r \in ReadResult :
        /\ r.insertedAs = call.issuedAs
        /\ r.insertedAs = call.userId
        /\ r.user_id = call.issuedAs

\* a read returned rows of its user while the table also held a row that
\* another user created
UsersIsolatedWitness ==
    /\ ReadResult # {}
    /\ \E r \in TableRows(ReadTable[call.op]) : r.insertedAs # call.issuedAs

(***************************************************************************)
(* The daily summaries: getDailySummary and saveDailySummary.  Two of the   *)
(* six summary columns are kept, the code treats the six alike.  Every     *)
(* await is a step; two calls may be in flight.                            *)
(***************************************************************************)

SummaryFields == {"chat_summary", "knowledge_summary"}
Dates == {1, 2}

\* what a summary argument may be: omitted, or a text
SummaryArgs == [SummaryFields -> {"undefined", "text"}]

\* CREATE POLICY daily_summaries_policy ON daily_summaries
\*   USING (user_id = auth.uid())
daily_summaries_policy(row, uid) == row.user_id = uid

\* chatSummary ?? existingSummary.chat_summary
Coalesce(arg, old) == IF arg = "undefined" THEN old ELSE arg

\* an omitted argument of insert({...}) leaves the column NULL
ColumnOf(arg) == IF arg = "undefined" THEN "null" ELSE arg

\* saveDailySummary(date, chatSummary?, knowledgeSummary?, ...) is called
CallSaveDailySummary(c, date, args) ==
    /\ save[c].pc = "idle"
    /\ Cardinality(daily_summaries) < MaxSummaries
    /\ save' = [save EXCEPT ![c] =
                  [NotSaving EXCEPT !.pc = "getUser", !.date = date,
                                    !.args = args]]
    /\ UNCHANGED <<chunkVars, codeVars, tables, knowledgeVars, storeVars, call,
                   ingestVars, daily_summaries>>

\* const userId = await getCurrentUserId()
SaveGetUser(c) ==
    /\ save[c].pc = "getUser"
    /\ save' = [save EXCEPT ![c] =
                  IF currentUser = NoUser
                  THEN [@ EXCEPT !.pc = "threw", !.failure = "NotAuthenticated"]
                  ELSE [@ EXCEPT !.pc = "getDailySummary", !.userId = currentUser]]
    /\ UNCHANGED <<chunkVars, codeVars, tables, knowledgeVars, storeVars, call,
                   ingestVars, daily_summaries>>

\* const existingSummary = await getDailySummary(date): the rows of the
\* session's user for the date; .single() gives the row when there is
\* exactly one and the error PGRST116, taken for "row not found", when there
\* is none or more than one
GetDailySummary(c) ==
    /\ save[c].pc = "getDailySummary"
    /\ LET found == {r \in daily_summaries :
                       /\ daily_summaries_policy(r, currentUser)
                       /\ r.user_id = currentUser
                       /\ r.date = save[c].date}
       IN save' = [save EXCEPT ![c] =
                     IF currentUser = NoUser
                     THEN [@ EXCEPT !.pc = "threw", !.failure = "NotAuthenticated"]
                     ELSE IF Cardinality(found) = 1
                     THEN [@ EXCEPT !.pc = "update",
                                    !.existingSummary = CHOOSE r \in found : TRUE]
                     ELSE [@ EXCEPT !.pc = "insert", !.existingSummary = "null"]]
    /\ UNCHANGED <<chunkVars, codeVars, tables, knowledgeVars, storeVars, call,
                   ingestVars, daily_summaries>>

\* .update({chat_summary: chatSummary ?? existingSummary.chat_summary, ...})
\* .eq('id', existingSummary.id).select().single()
UpdateDailySummary(c) ==
    /\ save[c].pc = "update"
    /\ LET old == save[c].existingSummary
           hit == {r \in daily_summaries :
                      r.id = old.id /\ daily_summaries_policy(r, currentUser)}
           new(r) == [r EXCEPT
                        !.chat_summary =
                            Coalesce(save[c].args["chat_summary"], old.chat_summary),
                        !.knowledge_summary =
                            Coalesce(save[c].args["knowledge_summary"],
                                     old.knowledge_summary)]
       IN IF hit = {}
          THEN /\ save' = [save EXCEPT ![c] =
                             [@ EXCEPT !.pc = "threw", !.failure = "PGRST116"]]
               /\ UNCHANGED daily_summaries
          ELSE /\ daily_summaries' =
                     (daily_summaries \ hit) \cup {new(r) : r \in hit}
               /\ save' = [save EXCEPT ![c] = [@ EXCEPT !.pc = "returned"]]
    /\ UNCHANGED <<chunkVars, codeVars, tables, knowledgeVars, storeVars, call,
                   ingestVars>>

\* .insert({user_id: userId, date, chat_summary: chatSummary, ...})
InsertDailySummary(c) ==
    /\ save[c].pc = "insert"
    /\ LET row == [id |-> nextId, user_id |-> save[c].userId,
                   date |-> save[c].date,
                   chat_summary |-> ColumnOf(save[c].args["chat_summary"]),
                   knowledge_summary |->
                       ColumnOf(save[c].args["knowledge_summary"])]
       IN IF daily_summaries_policy(row, currentUser)
          THEN /\ daily_summaries' = Inserted(daily_summaries, row)
               /\ nextId' = nextId + 1
               /\ save' = [save EXCEPT ![c] = [@ EXCEPT !.pc = "returned"]]
          ELSE /\ save' = [save EXCEPT ![c] =
                             [@ EXCEPT !.pc = "threw", !.failure = "RowSecurity"]]
               /\ UNCHANGED <<daily_summaries, nextId>>
    /\ UNCHANGED <<chunkVars, codeVars, tables, knowledgeVars, embeddings, clock,
                   currentUser, call, ingestVars>>

\* the call has returned the row or thrown
ReturnSaveDailySummary(c) ==
    /\ save[c].pc \in {"returned", "threw"}
    /\ save' = [save EXCEPT ![c] = NotSaving]
    /\ UNCHANGED <<chunkVars, codeVars, tables, knowledgeVars, storeVars, call,
                   ingestVars, daily_summaries>>

SummaryNext ==
    \/ \E c \in Savers :
          \/ \E date \in Dates, args \in SummaryArgs :
                CallSaveDailySummary(c, date, args)
          \/ SaveGetUser(c)
          \/ GetDailySummary(c)
          \/ UpdateDailySummary(c)
          \/ InsertDailySummary(c)
          \/ ReturnSaveDailySummary(c)
    \/ \E u \in Users \cup {NoUser} : SetSession(u)

SummarySpec == StoreInit /\ [][SummaryNext]_vars

\* C27: after any sequence and any interleaving of saveDailySummary calls
\* there is at most one row of daily_summaries per user and date, also when
\* two calls for the same date both read before either writes.
OneSummaryPerDay ==
    \A r1, r2 \in daily_summaries :
        (r1.user_id = r2.user_id /\ r1.date = r2.date) => r1.id = r2.id

\* C28: the update of saveDailySummary on a date that has a summary changes
\* only the columns for which a value is passed: every summary column whose
\* argument is omitted keeps its value, and the row keeps its id, user and
\* date.
SummaryFrame ==
    [][\A c \in Savers :
          (save[c].pc = "update" /\ save'[c].pc = "returned") =>
              \A r \in daily_summaries :
                  \E r2 \in daily_summaries' :
                      /\ r2.id = r.id
                      /\ r2.user_id = r.user_id
                      /\ r2.date = r.date
                      /\ \A f \in SummaryFields :
                            save[c].args[f] = "undefined" => r2[f] = r[f]]_vars

(***************************************************************************)
(* processTextForKnowledge: the entities and the relationships extracted   *)
(* from a text go to the knowledge graph.  One call at a time, the session *)
(* signed in as one user throughout; every await may fail.                 *)
(***************************************************************************)

\* the names the extraction may give, and an exact comparison of names
Names == {"Ann", "ann", "Bob"}

toLowerCaseExact(name) == name

\* String.prototype.toLowerCase
toLowerCase(name) == IF name \in {"Ann", "ann"} THEN "ann" ELSE "bob"

\* what extractKnowledge may return as relationships: up to
\* MaxRelationships objects {source, target, type}
Relationships ==
    UNION {[1..n -> [source : Names, target : Names, type : {"knows"}]] :
              n \in 0..MaxRelationships}

\* what extractKnowledge may return as entities: up to MaxEntities names
Entities == UNION {[1..n -> {"Ann", "Bob"}] : n \in 0..MaxEntities}

\* knowledge nodes stored before the call: two of user u1, one of user u2
StoredNodes ==
    {[id |-> 101, user_id |-> "u1", name |-> "Ann", shared |-> FALSE],
     [id |-> 102, user_id |-> "u2", name |-> "Bob", shared |-> FALSE],
     [id |-> 103, user_id |-> "u1", name |-> "bob", shared |-> FALSE]}

\* CREATE POLICY knowledge_relations_private_policy ON knowledge_relations
\*   USING (user_id = auth.uid() OR shared = TRUE)
knowledge_relations_private_policy(row, uid) == row.user_id = uid \/ row.shared

\* the position after the body of the loop over the relationships
NextRelationship(k) ==
    [k EXCEPT !.i = k.i + 1, !.sourceNode = NoNode, !.targetNode = NoNode,
              !.pc = IF k.i + 1 <= Len(k.relationships) THEN "findSource"
                     ELSE "returned"]

\* catch (error) { console.error(...); throw error; }
KnowThrew(k, e) == [k EXCEPT !.pc = "threw", !.failure = e]

\* getKnowledgeNodes().then(nodes => nodes.filter(node =>
\*   node.name.toLowerCase() === name.toLowerCase())): the nodes of the
\* session's user with that name
NodesNamed(name) ==
    {n \in tables["knowledge_nodes"] :
        /\ knowledge_nodes_private_policy(n, currentUser)
        /\ n.user_id = currentUser
        /\ toLowerCase(n.name) = toLowerCase(name)}

\* processTextForKnowledge(text, source, userId) is called and
\* extractKnowledge has answered
CallProcessTextForKnowledge(entities, relationships) ==
    /\ know.pc = "idle"
    /\ know' = [NotExtracting EXCEPT
                  !.entities = entities, !.relationships = relationships,
                  !.base = Len(knowledge_relations),
                  !.pc = IF entities # <<>> THEN "entities"
                         ELSE IF relationships # <<>> THEN "findSource"
                         ELSE "returned"]
    /\ UNCHANGED <<chunkVars, codeVars, tables, summaryVars, storeVars, call,
                   ingestVars, knowledge_relations>>

\* for (const entity of entities): addKnowledgeNode, generateEmbedding,
\* saveEmbedding, createdEntities.push, logEvent
EntityIteration ==
    /\ know.pc = "entities"
    /\ LET name == Head(know.entities)
           node == [id |-> nextId, user_id |-> currentUser, name |-> name,
                    shared |-> FALSE]
           rest == [know EXCEPT
                      !.entities = Tail(@),
                      !.createdEntities = Append(@, name),
                      !.pc = IF Tail(know.entities) # <<>> THEN "entities"
                             ELSE IF know.relationships # <<>> THEN "findSource"
                             ELSE "returned"]
       IN \/ /\ tables' = [tables EXCEPT !["knowledge_nodes"] = Inserted(@, node)]
             /\ nextId' = nextId + 1
             /\ know' = rest
          \/ /\ know' = KnowThrew(know, "StoreError")
             /\ UNCHANGED <<tables, nextId>>
    /\ UNCHANGED <<chunkVars, codeVars, summaryVars, embeddings, clock,
                   currentUser, call, ingestVars, knowledge_relations>>

\* const sourceNodes = await getKnowledgeNodes().then(...); sourceNodes[0]
\* is any of them, the query has no ORDER BY
FindSourceNodes ==
    /\ know.pc = "findSource"
    /\ LET found == NodesNamed(know.relationships[know.i].source)
       IN \/ /\ found = {}
             /\ know' = [know EXCEPT !.pc = "findTarget", !.sourceNode = NoNode]
          \/ \E n \in found :
                know' = [know EXCEPT !.pc = "findTarget", !.sourceNode = n]
          \/ know' = KnowThrew(know, "StoreError")
    /\ UNCHANGED <<chunkVars, codeVars, tables, summaryVars, storeVars, call,
                   ingestVars, knowledge_relations>>

\* const targetNodes = await getKnowledgeNodes().then(...); then
\* if (sourceNodes.length === 0 || targetNodes.length === 0) continue
FindTargetNodes ==
    /\ know.pc = "findTarget"
    /\ LET found == NodesNamed(know.relationships[know.i].target)
       IN \/ /\ found = {} \/ know.sourceNode = NoNode
             /\ know' = NextRelationship(know)
          \/ /\ know.sourceNode # NoNode
             /\ \E n \in found :
                   know' = [know EXCEPT !.pc = "addRelation", !.targetNode = n]
          \/ know' = KnowThrew(know, "StoreError")
    /\ UNCHANGED <<chunkVars, codeVars, tables, summaryVars, storeVars, call,
                   ingestVars, knowledge_relations>>

\* const relation = await addKnowledgeRelation(sourceNode.id, targetNode.id,
\* relationship.type); createdRelationships.push(`...`)
AddKnowledgeRelation ==
    /\ know.pc = "addRelation"
    /\ LET rel == know.relationships[know.i]
           row == [id |-> nextId, user_id |-> currentUser,
                   source_id |-> know.sourceNode.id,
                   target_id |-> know.targetNode.id,
                   relation_type |-> rel.type, shared |-> FALSE,
                   ordinal |-> know.i]   \* history: the relationship it is of
       IN \/ /\ knowledge_relations_private_policy(row, currentUser)
             /\ knowledge_relations' = Append(knowledge_relations, row)
             /\ nextId' = nextId + 1
             /\ know' = [know EXCEPT !.pc = "logEvent",
                           !.createdRelationships =
                               Append(@, <<rel.source, rel.type, rel.target>>)]
          \/ /\ know' = KnowThrew(know, "StoreError")
             /\ UNCHANGED <<knowledge_relations, nextId>>
    /\ UNCHANGED <<chunkVars, codeVars, tables, summaryVars, embeddings, clock,
                   currentUser, call, ingestVars>>

\* await logEvent('knowledge_extraction', `Added relationship: ...`, ...)
LogRelationEvent ==
    /\ know.pc = "logEvent"
    /\ \/ know' = NextRelationship(know)
       \/ know' = KnowThrew(know, "StoreError")
    /\ UNCHANGED <<chunkVars, codeVars, tables, summaryVars, storeVars, call,
                   ingestVars, knowledge_relations>>

KnowledgeInit ==
    /\ text = <<>> /\ maxChunkSize = 1 /\ chunks = <<>> /\ cpc = "done"
    /\ run = NoRun
    /\ embeddings = {} /\ nextId = 1 /\ clock = 1
    /\ currentUser = "u1"
    /\ call = Idle
    /\ files = {}
    /\ proc = [p \in Procs |-> NotStarted]
    /\ CodeAtRest
    /\ \E nodes \in SUBSET StoredNodes :
          /\ \A n \in StoredNodes : n.user_id # "u1" => n \in nodes
          /\ tables = [NoRows EXCEPT !["knowledge_nodes"] = nodes]
    /\ SummariesAtRest
    /\ KnowledgeAtRest

KnowledgeNext ==
    \/ /\ know.pc = "idle"
       /\ \E entities \in Entities, relationships \in Relationships :
             CallProcessTextForKnowledge(entities, relationships)
    \/ EntityIteration
    \/ FindSourceNodes
    \/ FindTargetNodes
    \/ AddKnowledgeRelation
    \/ LogRelationEvent

KnowledgeSpec == KnowledgeInit /\ [][KnowledgeNext]_vars

\* the same name up to the case of its letters
SameNameAnyCase(a, b) ==
    \/ a = b
    \/ {a, b} \subseteq {"Ann", "ann"}
    \/ {a, b} \subseteq {"Bob", "bob"}

\* the nodes of the session's user that carry the name, whatever the case
OwnNodesNamed(name) ==
    {n \in tables["knowledge_nodes"] :
        n.user_id = currentUser /\ SameNameAnyCase(n.name, name)}

\* the relations the call has persisted, by the relationship they are of
PersistedOrdinals ==
    [k \in 1..Len(knowledge_relations) |-> knowledge_relations[k].ordinal]

\* the relationships of the call whose two names both match an own node
MatchedOrdinals ==
    {i \in 1..Len(know.relationships) :
        /\ OwnNodesNamed(know.relationships[i].source) # {}
        /\ OwnNodesNamed(know.relationships[i].target) # {}}

\* C29: processTextForKnowledge persists a relation only between a node of
\* the current user named as the relationship's source and one named as its
\* target, case-insensitively; a relationship with a name that matches no
\* such node is skipped, the call goes on to the remaining ones and returns
\* without an error, and the relationships it returns are exactly the
\* persisted ones, in extraction order.
RelationsOnlyBetweenOwnNodes ==
    /\ \A k \in 1..Len(knowledge_relations) :
          LET row == knowledge_relations[k]
              rel == know.relationships[row.ordinal]
          IN /\ \E s \in OwnNodesNamed(rel.source) : s.id = row.source_id
             /\ \E t \in OwnNodesNamed(rel.target) : t.id = row.target_id
             /\ row.user_id = currentUser
             /\ row.relation_type = rel.type
    /\ \A k \in 1..Len(knowledge_relations) - 1 :
          PersistedOrdinals[k] < PersistedOrdinals[k + 1]
    /\ know.pc = "returned" =>
          /\ know.failure = "none"
          /\ {PersistedOrdinals[k] : k \in 1..Len(knowledge_relations)}
                = MatchedOrdinals
          /\ know.createdRelationships =
                [k \in 1..Len(knowledge_relations) |->
                    LET rel == know.relationships[PersistedOrdinals[k]]
                    IN <<rel.source, rel.type, rel.target>>]

\* a call that skipped its first relationship, persisted its second through
\* a name in another case, and returned
RelationsOnlyBetweenOwnNodesWitness ==
    /\ know.pc = "returned"
    /\ Len(know.relationships) = 2
    /\ MatchedOrdinals = {2}
    /\ Len(knowledge_relations) = 1
    /\ \E n \in tables["knowledge_nodes"] :
          /\ n.id = knowledge_relations[1].source_id
          /\ n.name # know.relationships[2].source

=============================================================================
